---- MODULE Spec2Model ----
(***************************************************************************)
(* Attribute / effect / modifier pipeline of bevy_gameplay_ability_system.  *)
(*                                                                         *)
(* One tick of the Bevy app is the Update schedule (the chain of effect    *)
(* systems registered by EffectPlugin) followed by the PostUpdate schedule  *)
(* (aggregate, clamp, change events).  Each system is one action.  Commands *)
(* queued by a system are applied at the sync point that follows it, which *)
(* is part of the same action.  f32 values are modelled as exact rationals *)
(* <<numerator, denominator>>; times (seconds) are whole numbers.          *)
(***************************************************************************)
EXTENDS Integers, Sequences, FiniteSets, TLC

\* ------------------------------------------------------------- bounds
\* Largest number of effect instances spawned in one behaviour.
MaxEffects == 2
\* Largest frame delta (Time::delta_secs), in seconds.
MaxDelta == 2
\* Largest period of a PeriodicEffect ticked on its own, and the time up to
\* which it is ticked.
MaxPeriod == 4
MaxElapsed == 40
\* Largest number of calls made on a GameplayCueManager.
MaxCalls == 4
\* Largest number of create_attributes calls.
MaxCreates == 4
\* Largest value, in hundreds, given to the methods of a define_attribute!
\* type.
MaxInput == 12
\* Largest number of register calls made on the two registries.
MaxRegisters == 3
\* Largest number of ApplyGameplayEffectEvents triggered between two runs of
\* apply_gameplay_effect_system.
MaxRequests == 3

\* ------------------------------------------------------------- f32 values
RECURSIVE GCD(_, _)
GCD(a, b) == IF b = 0 THEN a ELSE GCD(b, a % b)

Abs(n) == IF n < 0 THEN -n ELSE n

Norm(n, d) ==
    LET g == GCD(Abs(n), Abs(d))
        s == IF d < 0 THEN -1 ELSE 1
    IN  <<(s * n) \div g, (s * d) \div g>>

R(n) == <<n, 1>>
Frac(n, d) == Norm(n, d)
RAdd(x, y) == Norm(x[1] * y[2] + y[1] * x[2], x[2] * y[2])
RMul(x, y) == Norm(x[1] * y[1], x[2] * y[2])
RLt(x, y) == x[1] * y[2] < y[1] * x[2]
RLe(x, y) == x[1] * y[2] <= y[1] * x[2]
RMax(x, y) == IF RLt(x, y) THEN y ELSE x
RMin(x, y) == IF RLt(y, x) THEN y ELSE x

\* Option<f32>
NoneF == [some |-> FALSE, v |-> R(0)]
SomeF(x) == [some |-> TRUE, v |-> x]

\* ------------------------------------------------------------- attributes
Owners == {"hero", "goblin"}

\* The attribute entities: each has AttributeName, AttributeOwner and,
\* when the set defines metadata for the name, AttributeMetadataComponent.
AttrIds == {"hero.Health", "hero.Damage", "goblin.Health"}

AttributeOwner ==
    [a \in AttrIds |-> IF a = "goblin.Health" THEN "goblin" ELSE "hero"]

AttributeName ==
    [a \in AttrIds |-> IF a = "hero.Damage" THEN "Damage" ELSE "Health"]

\* attribute_metadata(name): Health is bounded to [0, 100], Damage has a
\* minimum of 0 and no maximum.
HasMetadata == [a \in AttrIds |-> AttributeName[a] \in {"Health", "Damage"}]

AttributeMetadata ==
    [a \in AttrIds |->
        CASE AttributeName[a] = "Health" ->
                [min_value |-> SomeF(R(0)), max_value |-> SomeF(R(100))]
          [] AttributeName[a] = "Damage" ->
                [min_value |-> SomeF(R(0)), max_value |-> NoneF]
          [] OTHER -> [min_value |-> NoneF, max_value |-> NoneF]]

\* default_value(name)
default_value ==
    [a \in AttrIds |-> IF AttributeName[a] = "Health" THEN R(100) ELSE R(10)]

\* AttributeData::new
AttributeData_new(v) == [base_value |-> v, current_value |-> v]

\* AttributeMetadata::clamp without the max_value branch.
clamp_min_only(metadata, value) ==
    IF metadata.min_value.some THEN RMax(value, metadata.min_value.v) ELSE value

\* AttributeMetadata::clamp
clamp(metadata, value) ==
    LET r1 == IF metadata.min_value.some
              THEN RMax(value, metadata.min_value.v) ELSE value
    IN  IF metadata.max_value.some THEN RMin(r1, metadata.max_value.v) ELSE r1

\* Values a caller passes to set_base_value.
BaseValues == {R(150)}

\* ------------------------------------------------------------- definitions
Operations ==
    {"AddBase", "AddCurrent", "MultiplyAdditive", "MultiplyMultiplicative",
     "Override"}

\* ModifierOperation::priority
priority_override_first(op) ==
    CASE op = "AddBase" -> 1
      [] op = "AddCurrent" -> 2
      [] op = "MultiplyAdditive" -> 3
      [] op = "MultiplyMultiplicative" -> 4
      [] op = "Override" -> 0

priority(op) ==
    CASE op = "AddBase" -> 0
      [] op = "AddCurrent" -> 1
      [] op = "MultiplyAdditive" -> 2
      [] op = "MultiplyMultiplicative" -> 3
      [] op = "Override" -> 4

\* MagnitudeCalculation::scalar
scalar(value) ==
    [kind |-> "ScalableFloat", base_value |-> value, attribute_name |-> "",
     coefficient |-> R(0), pre_multiply_additive |-> R(0),
     post_multiply_additive |-> R(0)]

\* MagnitudeCalculation::AttributeBased { .. }
AttributeBased(name, coefficient, pre, post) ==
    [kind |-> "AttributeBased", base_value |-> R(0), attribute_name |-> name,
     coefficient |-> coefficient, pre_multiply_additive |-> pre,
     post_multiply_additive |-> post]

\* ModifierInfo::new
ModifierInfo(name, op, mag) ==
    [attribute_name |-> name, operation |-> op, magnitude |-> mag]

\* MagnitudeCalculation::evaluate; source_value is an Option<f32>.
evaluate(magnitude, level, source_value) ==
    IF magnitude.kind = "ScalableFloat" THEN magnitude.base_value
    ELSE LET source == IF source_value.some THEN source_value.v ELSE R(0)
         IN  RAdd(RMul(RAdd(source, magnitude.pre_multiply_additive),
                       magnitude.coefficient),
                  magnitude.post_multiply_additive)

\* GameplayEffectDefinition built with new / with_duration / with_period /
\* add_modifier.
Definition(policy, dur, per, mods) ==
    [duration_policy |-> policy, duration_magnitude |-> dur, period |-> per,
     modifiers |-> mods, granted_tags |-> {},
     stacking_policy |-> "Independent", max_stacks |-> 0]

\* GameplayEffectDefinition::with_stacking_policy; max_stacks is the field of
\* StackingPolicy::StackCount.
with_stacking_policy(def, policy, max) ==
    [def EXCEPT !.stacking_policy = policy, !.max_stacks = max]

\* GameplayEffectDefinition::grant_tag
grant_tag(def, tag) == [def EXCEPT !.granted_tags = @ \cup {tag}]

\* The registered definitions (GameplayEffectRegistry::register).
GameplayEffectRegistry ==
    [instant_hit |->
        Definition("Instant", 0, 0,
            <<ModifierInfo("Health", "AddBase", scalar(R(-20))),
              ModifierInfo("Health", "AddCurrent", scalar(R(10)))>>),
     buff_add |->
        grant_tag(
            with_stacking_policy(
                Definition("HasDuration", 2, 0,
                    <<ModifierInfo("Health", "AddCurrent", scalar(R(20))),
                      ModifierInfo("Damage", "AddCurrent", scalar(R(15)))>>),
                "RefreshDuration", 0),
            "State.Stunned"),
     buff_mul |->
        Definition("HasDuration", 3, 1,
            <<ModifierInfo("Health", "MultiplyAdditive", scalar(Frac(1, 2))),
              ModifierInfo("Health", "MultiplyMultiplicative",
                           scalar(Frac(1, 10)))>>),
     ovr_a |->
        with_stacking_policy(
            Definition("HasDuration", 3, 0,
                <<ModifierInfo("Health", "Override", scalar(R(75)))>>),
            "StackCount", 2),
     scaled_hit |->
        Definition("HasDuration", 2, 0,
            <<ModifierInfo("Health", "AddCurrent",
                           AttributeBased("Damage", R(-2), R(1), R(3))),
              ModifierInfo("Health", "AddCurrent", scalar(R(-5)))>>),
     ovr_b |->
        Definition("Infinite", 0, 0,
            <<ModifierInfo("Health", "Override", scalar(R(30))),
              ModifierInfo("Health", "Override", scalar(R(60)))>>)]

DefIds == DOMAIN GameplayEffectRegistry

\* The definitions whose magnitudes are all ScalableFloat.
ScalarDefIds ==
    {id \in DefIds :
        \A i \in 1..Len(GameplayEffectRegistry[id].modifiers) :
            GameplayEffectRegistry[id].modifiers[i].magnitude.kind
                = "ScalableFloat"}

\* The levels at which a caller applies an effect.
Levels == {1, 2}

\* EffectInstigator(None), or no EffectInstigator component.
NoInstigator == "none"

\* The effect ids a caller puts in an ApplyGameplayEffectEvent: the registered
\* ones and one that is not registered.
RequestIds == DefIds \cup {"unknown"}

\* GameplayEffectRegistry::get(id).is_some()
is_registered(id) == id \in DefIds

\* The gameplay tags in use.
Tags == {"State.Stunned", "State.Alive"}

\* ------------------------------------------------------------- abilities
\* AbilityDefinition::new with add_activation_required_tag,
\* add_activation_blocked_tag and add_cancel_on_tag_added.
AbilityDefinition(required, blocked, cancel) ==
    [activation_required_tags |-> required,
     activation_blocked_tags |-> blocked,
     cancel_on_tags_added |-> cancel,
     cost_effect |-> {},
     cooldown_effect |-> {}]

\* AbilityDefinition::with_cost_effect and with_cooldown_effect; an
\* Option<String> is the set of at most one effect id.
with_cost_effect(def, effect_id) == [def EXCEPT !.cost_effect = {effect_id}]

with_cooldown_effect(def, effect_id) ==
    [def EXCEPT !.cooldown_effect = {effect_id}]

\* The registered abilities (AbilityRegistry::register).
AbilityRegistry ==
    [fireball |->
        with_cooldown_effect(
            with_cost_effect(
                AbilityDefinition({"State.Alive"}, {"State.Stunned"},
                                  {"State.Stunned"}),
                "instant_hit"),
            "buff_add"),
     dash |-> AbilityDefinition({}, {}, {})]

\* The granted abilities: one spec entity per definition, owned by the hero.
SpecIds == {"spec.fireball", "spec.dash"}

AbilityOwner == [s \in SpecIds |-> "hero"]

\* AbilitySpec::new with AbilityState::default()
AbilitySpec_new(id) ==
    [definition_id |-> id, level |-> 1, is_active |-> FALSE, state |-> "Ready"]

\* The durations a caller gives AbilityCooldown::new.
CooldownDurations == {1, 2}

\* GameplayTagCountContainer::has_matching_gameplay_tag, for tags without
\* parents.
has_matching_gameplay_tag(container, tag) == tag \in container

\* check_ability_activation_requirements
check_ability_activation_requirements(ability_def, container) ==
    /\ \A t \in ability_def.activation_required_tags :
           has_matching_gameplay_tag(container, t)
    /\ \A t \in ability_def.activation_blocked_tags :
           ~has_matching_gameplay_tag(container, t)

\* is_expired with remaining < 0.0 in place of remaining <= 0.0.
cooldown_is_expired_strict(remaining) == remaining < 0

\* AbilityCooldown::is_expired
cooldown_is_expired(remaining) == remaining <= 0

\* ------------------------------------------------------------- registries
\* HashMap::insert without replacement of an existing entry.
HashMap_insert_if_absent(map, key, value) ==
    IF key \in DOMAIN map THEN map
    ELSE [k \in DOMAIN map \cup {key} |-> IF k = key THEN value ELSE map[k]]

\* HashMap::insert
HashMap_insert(map, key, value) ==
    [k \in DOMAIN map \cup {key} |-> IF k = key THEN value ELSE map[k]]

\* HashMap::get; an Option is the set of at most one value.
HashMap_get(map, key) == IF key \in DOMAIN map THEN {map[key]} ELSE {}

\* GameplayEffectRegistry::register and ::get
GameplayEffectRegistry_register(definitions, definition) ==
    HashMap_insert(definitions, definition.id, definition)

GameplayEffectRegistry_get(definitions, id) == HashMap_get(definitions, id)

\* AbilityRegistry::register and ::get
AbilityRegistry_register(definitions, definition) ==
    HashMap_insert(definitions, definition.id, definition)

AbilityRegistry_get(definitions, id) == HashMap_get(definitions, id)

\* GameplayEffectDefinition::new and with_duration, reduced to the fields
\* that tell two definitions apart.
GameplayEffectDefinition_new(id) ==
    [id |-> id, duration_policy |-> "Instant", duration_magnitude |-> 0]

with_duration(def, duration) ==
    [def EXCEPT !.duration_policy = "HasDuration",
                !.duration_magnitude = duration]

\* AbilityDefinition::new, reduced in the same way.
AbilityDefinition_new(id) == [id |-> id, cost_effect |-> {}]

\* The definitions a caller registers, and the ids it looks up.
EffectDefinitions ==
    {GameplayEffectDefinition_new("test"),
     with_duration(GameplayEffectDefinition_new("test"), 5),
     GameplayEffectDefinition_new("other")}

AbilityDefinitions ==
    {AbilityDefinition_new("test"),
     with_cost_effect(AbilityDefinition_new("test"), "instant_hit"),
     AbilityDefinition_new("other")}

LookupIds == {"test", "other", "nonexistent"}

\* ------------------------------------------------------------- attribute sets
\* AttributeSetDefinition::attribute_names of TestAttributes and of the
\* CharacterAttributes of the trait's example.
attribute_names ==
    [TestAttributes |-> <<"Health", "Mana">>,
     CharacterAttributes |-> <<"Health", "Mana", "Stamina">>]

\* AttributeSetDefinition::default_value of the two sets.
set_default_value(set, name) ==
    CASE set = "TestAttributes" /\ name = "Health" -> 100
      [] set = "TestAttributes" /\ name = "Mana" -> 50
      [] set = "CharacterAttributes" -> 100
      [] OTHER -> 0

\* AttributeSetDefinition::attribute_metadata(name).is_some()
set_has_metadata(set, name) == name \in {"Health", "Mana", "Stamina"}

\* The entities one create_attributes call of `set` spawns for owner.
created_attributes(set, owner) ==
    [i \in 1..Len(attribute_names[set]) |->
        [owner |-> owner, name |-> attribute_names[set][i],
         data |-> set_default_value(set, attribute_names[set][i]),
         has_metadata |-> set_has_metadata(set, attribute_names[set][i])]]

\* create_attributes::<set>(commands, owner), with the commands applied.
create_attributes(entities, set, owner) ==
    entities \o created_attributes(set, owner)

\* ------------------------------------------------------------- define_attribute!
\* define_attribute!(MaxHealth, min = 0.0, max = 1000.0, default = 100.0),
\* with values in hundreds.
MaxHealth_min == 0
MaxHealth_max == 10
MaxHealth_default == 1

\* The values a caller passes, and the values a pre-change hook may write to
\* new_value.
MacroInputs == (0 - 2)..MaxInput

\* f32::clamp(min, max)
f32_clamp(value, min, max) ==
    IF value < min THEN min ELSE IF value > max THEN max ELSE value

\* $name::new()
MaxHealth_new ==
    [base_value |-> f32_clamp(MaxHealth_default, MaxHealth_min, MaxHealth_max),
     current_value |-> f32_clamp(MaxHealth_default, MaxHealth_min,
                                 MaxHealth_max)]

\* $name::with_value(value)
with_value(value) ==
    [base_value |-> f32_clamp(value, MaxHealth_min, MaxHealth_max),
     current_value |-> f32_clamp(value, MaxHealth_min, MaxHealth_max)]

\* set_current_value(value), the pre hook having left `hooked` in new_value.
set_current_value(attr, hooked) ==
    [attr EXCEPT !.current_value =
        f32_clamp(hooked, MaxHealth_min, MaxHealth_max)]

\* set_base_value(value) of the macro type, the pre hook having left
\* `hooked` in new_value.
macro_set_base_value(attr, hooked) ==
    [attr EXCEPT !.base_value =
        f32_clamp(hooked, MaxHealth_min, MaxHealth_max)]

\* is_valid_value: ($min..$max).contains(&value), a half-open range.
is_valid_value(value) == MaxHealth_min <= value /\ value < MaxHealth_max

\* ------------------------------------------------------------- cues
\* GameplayCueManager::new (Default): no pending cue, batching off.
GameplayCueManager_new ==
    [batching_active |-> FALSE, pending_cues |-> <<>>, executed |-> <<>>]

\* The cues a caller executes: a tag and a GameplayCueEvent.
Cues ==
    {[cue_tag |-> t, event_type |-> ev] :
        t \in {"GameplayCue.Test", "GameplayCue.Hit"},
        ev \in {"Executed", "OnActive"}}

\* execute_cue_internal: it changes no field of the manager; the call is
\* kept in executed.
execute_cue_internal(manager, cue) ==
    [manager EXCEPT !.executed = Append(@, cue)]

\* GameplayCueManager::execute_cue
execute_cue(manager, cue) ==
    IF manager.batching_active
    THEN [manager EXCEPT !.pending_cues = Append(@, cue)]
    ELSE execute_cue_internal(manager, cue)

\* GameplayCueManager::start_batching
start_batching(manager) == [manager EXCEPT !.batching_active = TRUE]

\* for cue in pending { self.execute_cue_internal(..) }
RECURSIVE execute_pending(_, _)
execute_pending(manager, pending) ==
    IF pending = <<>> THEN manager
    ELSE execute_pending(execute_cue_internal(manager, Head(pending)),
                         Tail(pending))

\* end_batching with the pending cues read but not taken.
end_batching_keep_pending(manager) ==
    execute_pending([manager EXCEPT !.batching_active = FALSE],
                    manager.pending_cues)

\* GameplayCueManager::end_batching
end_batching(manager) ==
    execute_pending([manager EXCEPT !.batching_active = FALSE,
                                    !.pending_cues = <<>>],
                    manager.pending_cues)

\* ------------------------------------------------------------- state
VARIABLES
    attributes,     \* AttrIds -> AttributeData
    effects,        \* live effect entity id -> its components
    modifiers,      \* the modifier table, in storage (iteration) order
    nextId,         \* next effect entity id
    nextModifier,   \* creation stamp of the next modifier entity
    pc,             \* position in the frame
    postDone,       \* PostUpdate systems that have run in this frame
    delta,          \* Time::delta_secs of this frame
    changedClamp,   \* attributes changed since clamp_attributes_system ran
    changedEvents,  \* attributes changed since the change-event system ran
    addedCreate,    \* effects added since create_effect_modifiers_system ran
    addedInstant,   \* effects added since remove_instant_effects_system ran
    events,         \* AttributeChangedEvents triggered in this frame
    expiredGone,    \* history: effects despawned by remove_expired_effects_system
    instantGone,    \* history: effects despawned by remove_instant_effects_system
    seenAgg,        \* history: nextId at the last aggregation pass
    contributed,    \* history: effects whose modifiers took part in a pass
    aggState,       \* history: "changed" when modifiers or base values changed
                    \* since the last pass, else "fresh" after one pass on the
                    \* present inputs and "rerun" after more
    lastOut,        \* history: the values the last aggregation pass produced
    baseSet,        \* history: attr -> base value last set by a caller or by
                    \* the clamp
    tickStart,      \* history: attr -> current_value when the tick began
    instantDelta,   \* history: attr -> AddBase sum of Instant effects applied since
    tags,           \* owner -> the tags its GameplayTagCountContainer holds
    applyRequests,  \* history: the ApplyGameplayEffectEvents triggered since
                    \* apply_gameplay_effect_system last ran
    applyErrors,    \* the errors reported to callers of apply
    specs,          \* ability spec entity -> AbilitySpec and AbilityState
    instances,      \* ability spec entity -> number of ActiveAbilityInstance
                    \* entities whose spec_entity it is
    cooldowns,      \* entities with an AbilityCooldown -> remaining seconds
    tryRequests,    \* history: specs named by the TryActivateAbilityEvents
                    \* triggered for this frame
    cancelRequests, \* history: specs named by the CancelAbilityEvents
                    \* triggered for this frame
    abilityDone,    \* ability systems that have run in this frame
    commitRequests, \* history: specs named by the CommitAbilityEvents
                    \* triggered for this frame
    committed,      \* specs whose ActiveAbilityInstance has is_committed
    effect_definitions,  \* GameplayEffectRegistry::definitions of a registry
                         \* a caller fills
    ability_definitions, \* AbilityRegistry::definitions of such a registry
    registerLog,    \* history: the register calls made, as <<registry,
                    \* definition>>, in order
    cooldownClock,  \* history: spec -> [total, elapsed] of the AbilityCooldown
                    \* last inserted on it with its time counted: the
                    \* duration given to new and the sum of the deltas of the
                    \* ticks it lived through
    passRead,       \* history: attr -> the modifiers and the base value the
                    \* last recorded aggregation pass read for it, and the
                    \* value the pass produced
    periodicTimer,  \* a PeriodicEffect ticked on its own: [period,
                    \* time_until_next], period 0 before PeriodicEffect::new
    periodicClock,  \* history: [elapsed, executions]: the sum of the deltas
                    \* given to its tick and the number of ticks that
                    \* returned true
    cueManager,     \* a GameplayCueManager: [batching_active, pending_cues],
                    \* with the history field executed: the cues given to
                    \* execute_cue_internal, in call order
    cueCalls,       \* history: the calls made on the manager, in order
    attributeEntities, \* the attribute entities create_attributes spawned, in
                    \* spawn order: [owner, name, data, has_metadata]
    maxHealth,      \* a MaxHealth component: [base_value, current_value], in
                    \* hundreds
    activeAtStart   \* history: specs that were active when the first ability
                    \* system of this frame ran

\* The state the effect and attribute systems do not write.
requestVars == <<tags, applyRequests, applyErrors>>

\* The state of the ability systems.
abilityVars ==
    <<specs, instances, cooldowns, tryRequests, cancelRequests, abilityDone,
      commitRequests, committed, activeAtStart>>

\* The registries a caller fills by hand.
registryVars == <<effect_definitions, ability_definitions, registerLog>>

\* The history kept for single components.
\* The components and resources exercised on their own.
periodicVars == <<periodicTimer, periodicClock>>

cueVars == <<cueManager, cueCalls>>

attributeSetVars == <<attributeEntities>>

macroVars == <<maxHealth>>

unitVars == <<periodicVars, cueVars, attributeSetVars, macroVars>>

auxVars == <<cooldownClock, passRead, unitVars>>

vars ==
    <<attributes, effects, modifiers, nextId, nextModifier, pc, postDone,
      delta, changedClamp, changedEvents, addedCreate, addedInstant, events,
      expiredGone, instantGone, seenAgg, contributed, aggState, lastOut,
      baseSet, instantDelta, tickStart, requestVars, abilityVars,
      registryVars, auxVars>>

\* The state the ability systems do not write.
effectVars ==
    <<attributes, effects, modifiers, nextId, nextModifier, pc, postDone,
      delta, changedClamp, changedEvents, addedCreate, addedInstant, events,
      expiredGone, instantGone, seenAgg, contributed, aggState, lastOut,
      baseSet, instantDelta, tickStart, applyRequests, applyErrors>>

\* Everything but the components and resources exercised on their own.
worldVars ==
    <<attributes, effects, modifiers, nextId, nextModifier, pc, postDone,
      delta, changedClamp, changedEvents, addedCreate, addedInstant, events,
      expiredGone, instantGone, seenAgg, contributed, aggState, lastOut,
      baseSet, instantDelta, tickStart, requestVars, abilityVars,
      registryVars, cooldownClock, passRead>>

\* ------------------------------------------------------------- storage
\* The sequences over S in which every element occurs once: the orders in
\* which a query may visit the entities of S.
Orders(S) ==
    {s \in [1..Cardinality(S) -> S] :
        \A i, j \in 1..Cardinality(S) : s[i] = s[j] => i = j}

Restrict(f, S) == [x \in S |-> f[x]]

\* Table::swap_remove: the last row moves into the freed row.
swap_remove(tab, i) ==
    LET n == Len(tab)
    IN  IF i = n THEN SubSeq(tab, 1, n - 1)
        ELSE SubSeq([tab EXCEPT ![i] = tab[n]], 1, n - 1)

\* commands.entity(modifier_entity).despawn(), applied at the sync point.
despawn_modifier(tab, stamp) ==
    IF \E i \in 1..Len(tab) : tab[i].created = stamp
    THEN swap_remove(tab, CHOOSE i \in 1..Len(tab) : tab[i].created = stamp)
    ELSE tab

RECURSIVE despawn_modifiers(_, _)
despawn_modifiers(tab, victims) ==
    IF victims = <<>> THEN tab
    ELSE despawn_modifiers(despawn_modifier(tab, Head(victims).created),
                           Tail(victims))

\* The modifiers of effect e, in iteration order.
modifiers_of(tab, e) == SelectSeq(tab, LAMBDA m : m.source = e)

\* ------------------------------------------------------------- effect timers
\* EffectDuration::is_expired
is_expired_strict(effect) == effect.remaining < 0

is_expired(effect) == effect.remaining <= 0

\* EffectDuration::tick
EffectDuration_tick(effect, dt) ==
    [effect EXCEPT !.remaining = effect.remaining - dt]

\* PeriodicEffect::should_execute
\* should_execute with time_until_next < 0.0 in place of <= 0.0.
should_execute_strict(time_until_next) == time_until_next < 0

should_execute(time_until_next) == time_until_next <= 0

\* PeriodicEffect::tick: the timer it leaves.
PeriodicEffect_tick(effect, dt) ==
    LET t == effect.time_until_next - dt
    IN  IF should_execute(t)
        THEN [effect EXCEPT !.time_until_next = t + effect.period]
        ELSE [effect EXCEPT !.time_until_next = t]

\* The number of times execute_periodic_effects_system enters the body of
\* `if periodic.tick(..)` for one effect in one run: tick returns one bool.
periodic_executions(effect, dt) ==
    IF should_execute(effect.time_until_next - dt) THEN 1 ELSE 0

\* PeriodicEffect::new(period)
PeriodicEffect_new(period) == [period |-> period, time_until_next |-> period]

\* let mut periodic = PeriodicEffect::new(period)
NewPeriodic ==
    /\ \E period \in 1..MaxPeriod :
          periodicTimer' = PeriodicEffect_new(period)
    /\ periodicClock' = [elapsed |-> 0, executions |-> 0]
    /\ UNCHANGED worldVars
    /\ UNCHANGED cueVars
    /\ UNCHANGED attributeSetVars
    /\ UNCHANGED macroVars

\* periodic.tick(delta) with a delta no larger than the period.
TickPeriodic ==
    /\ periodicTimer.period > 0
    /\ \E dt \in 0..periodicTimer.period :
          /\ periodicClock.elapsed + dt <= MaxElapsed
          /\ periodicTimer' = PeriodicEffect_tick(periodicTimer, dt)
          /\ periodicClock' =
                 [elapsed |-> periodicClock.elapsed + dt,
                  executions |-> periodicClock.executions
                                    + periodic_executions(periodicTimer, dt)]
    /\ UNCHANGED worldVars
    /\ UNCHANGED cueVars
    /\ UNCHANGED attributeSetVars
    /\ UNCHANGED macroVars

\* manager.execute_cue(tag, event_type, parameters)
ExecuteCue ==
    /\ Len(cueCalls) < MaxCalls
    /\ \E cue \in Cues :
          /\ cueManager' = execute_cue(cueManager, cue)
          /\ cueCalls' = Append(cueCalls, <<"execute_cue", cue>>)
    /\ UNCHANGED worldVars
    /\ UNCHANGED periodicVars
    /\ UNCHANGED attributeSetVars
    /\ UNCHANGED macroVars

\* manager.start_batching()
StartBatching ==
    /\ Len(cueCalls) < MaxCalls
    /\ cueManager' = start_batching(cueManager)
    /\ cueCalls' = Append(cueCalls, <<"start_batching">>)
    /\ UNCHANGED worldVars
    /\ UNCHANGED periodicVars
    /\ UNCHANGED attributeSetVars
    /\ UNCHANGED macroVars

\* manager.end_batching()
EndBatching ==
    /\ Len(cueCalls) < MaxCalls
    /\ cueManager' = end_batching(cueManager)
    /\ cueCalls' = Append(cueCalls, <<"end_batching">>)
    /\ UNCHANGED worldVars
    /\ UNCHANGED periodicVars
    /\ UNCHANGED attributeSetVars
    /\ UNCHANGED macroVars

\* Set::create_attributes(&mut commands, owner)
CreateAttributes ==
    /\ Len(attributeEntities) < 2 * MaxCreates
    /\ \E set \in DOMAIN attribute_names, owner \in Owners :
          attributeEntities' = create_attributes(attributeEntities, set, owner)
    /\ UNCHANGED worldVars
    /\ UNCHANGED periodicVars
    /\ UNCHANGED cueVars
    /\ UNCHANGED macroVars

\* MaxHealth::new() and MaxHealth::with_value(value)
MacroConstruct ==
    /\ \/ maxHealth' = MaxHealth_new
       \/ \E value \in MacroInputs : maxHealth' = with_value(value)
    /\ UNCHANGED worldVars
    /\ UNCHANGED <<periodicVars, cueVars, attributeSetVars>>

\* attr.set_current_value(value): the default pre hook leaves the value as
\* it is, an implemented one may write any value.
MacroSetCurrentValue ==
    /\ \E value \in MacroInputs, hooked \in MacroInputs :
          maxHealth' = set_current_value(maxHealth, hooked)
    /\ UNCHANGED worldVars
    /\ UNCHANGED <<periodicVars, cueVars, attributeSetVars>>

\* attr.set_base_value(value)
MacroSetBaseValue ==
    /\ \E value \in MacroInputs, hooked \in MacroInputs :
          maxHealth' = macro_set_base_value(maxHealth, hooked)
    /\ UNCHANGED worldVars
    /\ UNCHANGED <<periodicVars, cueVars, attributeSetVars>>

\* ------------------------------------------------------------- aggregation
\* The filter of aggregate_attribute_modifiers_system.
applicable_modifiers(a, tab) ==
    SelectSeq(tab, LAMBDA m :
        m.target_entity = AttributeOwner[a]
        /\ m.target_attribute = AttributeName[a])

RECURSIVE sort_from(_, _)
sort_from(s, p) ==
    IF p > Cardinality(Operations) - 1 THEN <<>>
    ELSE SelectSeq(s, LAMBDA m : priority(m.operation) = p)
         \o sort_from(s, p + 1)

\* applicable_modifiers.sort_by_key(|m| m.operation.priority()): a stable sort.
sort_unsorted(s) == s

sort_by_key(s) == sort_from(s, 0)

\* let mut current = attr_data.base_value
start_from_current(attr) == attr.current_value

start_value(attr) == attr.base_value

\* One arm of the match on modifier.operation.
apply_modifier_additive_compounds(acc, m) ==
    CASE m.operation = "AddBase" -> acc
      [] m.operation = "AddCurrent" ->
            [acc EXCEPT !.current = RAdd(acc.current, m.magnitude)]
      [] m.operation = "MultiplyAdditive" ->
            [acc EXCEPT !.additive_multiplier =
                RAdd(RMul(RAdd(R(1), acc.additive_multiplier),
                          RAdd(R(1), m.magnitude)), R(-1))]
      [] m.operation = "MultiplyMultiplicative" ->
            [acc EXCEPT !.multiplicative_multiplier =
                RMul(acc.multiplicative_multiplier, RAdd(R(1), m.magnitude))]
      [] m.operation = "Override" -> [acc EXCEPT !.current = m.magnitude]

apply_modifier(acc, m) ==
    CASE m.operation = "AddBase" -> acc
      [] m.operation = "AddCurrent" ->
            [acc EXCEPT !.current = RAdd(acc.current, m.magnitude)]
      [] m.operation = "MultiplyAdditive" ->
            [acc EXCEPT !.additive_multiplier =
                RAdd(acc.additive_multiplier, m.magnitude)]
      [] m.operation = "MultiplyMultiplicative" ->
            [acc EXCEPT !.multiplicative_multiplier =
                RMul(acc.multiplicative_multiplier, RAdd(R(1), m.magnitude))]
      [] m.operation = "Override" -> [acc EXCEPT !.current = m.magnitude]

RECURSIVE apply_modifiers(_, _)
apply_modifiers(acc, s) ==
    IF s = <<>> THEN acc
    ELSE apply_modifiers(apply_modifier(acc, Head(s)), Tail(s))

\* The body of the loop of aggregate_attribute_modifiers_system up to the
\* value it compares with the stored current_value, for modifiers visited in
\* the order mods.
aggregate_in_order(attr, mods) ==
    LET acc == apply_modifiers(
                   [current |-> start_value(attr),
                    additive_multiplier |-> R(0),
                    multiplicative_multiplier |-> R(1)],
                   sort_by_key(mods))
    IN  RMul(RMul(acc.current, RAdd(R(1), acc.additive_multiplier)),
             acc.multiplicative_multiplier)

aggregate(attr, a, tab) == aggregate_in_order(attr, applicable_modifiers(a, tab))


\* ------------------------------------------------------------- frame
\* The systems of PostUpdate.  AttributePlugin orders clamp before the change
\* events; EffectPlugin adds aggregate with no ordering against either.
PostSystems == {"aggregate", "clamp", "events"}

post_step(name) ==
    /\ pc = "post"
    /\ name \notin postDone
    /\ postDone' = postDone \cup {name}
    /\ pc' = IF postDone \cup {name} = PostSystems THEN "end" ELSE "post"

\* When the last system of the frame has run, the values the next tick
\* begins with are the values this one leaves.
tick_start_step ==
    tickStart' = IF pc' = "end"
                 THEN [a \in AttrIds |-> attributes'[a].current_value]
                 ELSE tickStart

NoOut == [a \in AttrIds |-> R(0)]

Init ==
    /\ attributes = [a \in AttrIds |-> AttributeData_new(default_value[a])]
    /\ effects = [e \in {} |-> 0]
    /\ modifiers = <<>>
    /\ nextId = 1
    /\ nextModifier = 1
    /\ pc = "idle"
    /\ postDone = {}
    /\ delta = 1
    /\ changedClamp = AttrIds
    /\ changedEvents = AttrIds
    /\ addedCreate = {}
    /\ addedInstant = {}
    /\ events = {}
    /\ expiredGone = {}
    /\ instantGone = {}
    /\ seenAgg = 1
    /\ contributed = {}
    /\ aggState = "changed"
    /\ lastOut = NoOut
    /\ baseSet = [a \in AttrIds |-> default_value[a]]
    /\ instantDelta = [a \in AttrIds |-> R(0)]
    /\ tickStart = [a \in AttrIds |-> default_value[a]]
    /\ tags = [o \in Owners |-> {}]
    /\ applyRequests = <<>>
    /\ applyErrors = {}
    /\ specs = [s \in SpecIds |->
                   AbilitySpec_new(IF s = "spec.fireball" THEN "fireball"
                                   ELSE "dash")]
    /\ instances = [s \in SpecIds |-> 0]
    /\ cooldowns = [s \in {} |-> 0]
    /\ tryRequests = {}
    /\ cancelRequests = {}
    /\ abilityDone = {}
    /\ commitRequests = {}
    /\ activeAtStart = {}
    /\ committed = {}
    /\ effect_definitions = [k \in {} |-> 0]
    /\ ability_definitions = [k \in {} |-> 0]
    /\ registerLog = <<>>
    /\ cooldownClock = [k \in {} |-> 0]
    /\ periodicTimer = [period |-> 0, time_until_next |-> 0]
    /\ periodicClock = [elapsed |-> 0, executions |-> 0]
    /\ cueManager = GameplayCueManager_new
    /\ cueCalls = <<>>
    /\ attributeEntities = <<>>
    /\ maxHealth = MaxHealth_new
    /\ passRead = [a \in AttrIds |->
                      [done |-> FALSE, mods |-> {}, base |-> R(0),
                       out |-> R(0)]]

\* ------------------------------------------------------------- callers
\* The effect applications a caller makes: each definition with constant
\* magnitudes, on the hero.
SpawnRequests == {<<id, "hero">> : id \in ScalarDefIds}

\* The effect applications of a caller that names an instigator: on the
\* goblin, by the hero or by nobody, at any level.
InstigatedRequests ==
    {<<id, "goblin", i, l>> :
        id \in {"scaled_hit", "instant_hit"}, i \in {"hero", NoInstigator},
        l \in Levels}

\* The base values a caller sets.
\* Effects a caller spawns on the hero and on the goblin.
TargetRequests ==
    {<<"ovr_b", "hero">>, <<"buff_add", "hero">>,
     <<"ovr_a", "goblin">>, <<"buff_mul", "goblin">>}

BaseRequests == {<<"hero.Health", v>> : v \in BaseValues}

\* The components apply_effect_to_target gives a new effect entity.
new_effect(id, target) ==
    LET def == GameplayEffectRegistry[id]
    IN  [definition_id |-> id, level |-> 1, stack_count |-> 1,
         target |-> target,
         instigator |-> NoInstigator,
         has_duration |-> def.duration_policy = "HasDuration",
         remaining |-> IF def.duration_policy = "HasDuration"
                       THEN def.duration_magnitude ELSE 0,
         total |-> IF def.duration_policy = "HasDuration"
                   THEN def.duration_magnitude ELSE 0,
         has_periodic |-> def.period > 0,
         period |-> IF def.period > 0 THEN def.period ELSE 0,
         time_until_next |-> IF def.period > 0 THEN def.period ELSE 0]

\* Every policy other than HasDuration taken as Instant.
IsInstant_or_infinite(id) ==
    GameplayEffectRegistry[id].duration_policy # "HasDuration"

IsInstant(id) == GameplayEffectRegistry[id].duration_policy = "Instant"

\* world.spawn of the components of one effect entity.
spawn(effect) ==
    /\ nextId <= MaxEffects
    /\ effects' = [e \in DOMAIN effects \cup {nextId} |->
                      IF e = nextId THEN effect ELSE effects[e]]
    /\ nextId' = nextId + 1
    /\ addedCreate' = addedCreate \cup {nextId}
    /\ addedInstant' = addedInstant \cup {nextId}
    /\ UNCHANGED <<attributes, modifiers, nextModifier, postDone, delta,
                   changedClamp, changedEvents, events, expiredGone,
                   instantGone, seenAgg, contributed, aggState, lastOut,
                   baseSet, instantDelta>>
    /\ UNCHANGED tickStart
    /\ UNCHANGED requestVars
    /\ UNCHANGED abilityVars
    /\ UNCHANGED registryVars
    /\ UNCHANGED auxVars

spawn_effect(id, target) == spawn(new_effect(id, target))

\* An effect entity that exists when create_effect_modifiers_system runs:
\* spawned between two frames (world_mut().spawn, or commands applied at the
\* end of the previous frame) or by commands applied at the sync point after
\* apply_gameplay_effect_system.
SpawnEffect ==
    /\ pc = "create"
    /\ pc' = pc
    /\ \E req \in SpawnRequests : spawn_effect(req[1], req[2])

\* An effect entity spawned between two frames on one of two targets.
SpawnEffectOn ==
    /\ pc = "create"
    /\ pc' = pc
    /\ \E req \in TargetRequests : spawn_effect(req[1], req[2])

\* An effect entity with EffectInstigator and a level, spawned between two
\* frames.
SpawnEffectFrom ==
    /\ pc = "create"
    /\ pc' = pc
    /\ \E req \in InstigatedRequests :
          spawn([new_effect(req[1], req[2]) EXCEPT
                    !.instigator = req[3], !.level = req[4]])

\* An effect entity spawned by the commands of a system of Update that is not
\* ordered against the effect systems: the commands are applied at one of the
\* sync points inside the chain, here the one after
\* create_effect_modifiers_system.
SpawnEffectDeferred ==
    /\ pc = "durations"
    /\ pc' = pc
    /\ \E req \in SpawnRequests : spawn_effect(req[1], req[2])

\* AttributeData::set_base_value, called before the effect systems of the
\* frame run.
SetBaseValue ==
    /\ pc = "create"
    /\ pc' = pc
    /\ \E req \in BaseRequests :
        LET a == req[1]
            v == req[2]
        IN  /\ attributes[a].base_value # v
            /\ attributes' = [attributes EXCEPT ![a] =
                                 [base_value |-> v, current_value |-> v]]
            /\ changedClamp' = changedClamp \cup {a}
            /\ changedEvents' = changedEvents \cup {a}
            /\ baseSet' = [baseSet EXCEPT ![a] = v]
            /\ instantDelta' = [instantDelta EXCEPT ![a] = R(0)]
            /\ tickStart' = [tickStart EXCEPT ![a] = v]
    /\ aggState' = "changed"
    /\ lastOut' = NoOut
    /\ UNCHANGED <<effects, modifiers, nextId, nextModifier, postDone, delta,
                   addedCreate, addedInstant, events, expiredGone, instantGone,
                   seenAgg, contributed>>
    /\ UNCHANGED requestVars
    /\ UNCHANGED abilityVars
    /\ UNCHANGED registryVars
    /\ UNCHANGED auxVars

\* commands.trigger(ApplyGameplayEffectEvent { effect_id, target, .. }) by a
\* caller between two frames.  The plugins register no observer of the event,
\* so triggering it runs no code of the library.
TriggerApplyEffect ==
    /\ pc \in {"idle", "end"}
    /\ pc' = pc
    /\ Len(applyRequests) < MaxRequests
    /\ \E id \in RequestIds :
          applyRequests' =
              Append(applyRequests,
                     [effect_id |-> id, target |-> "hero", level |-> 1])
    /\ UNCHANGED <<attributes, effects, modifiers, nextId, nextModifier,
                   postDone, delta, changedClamp, changedEvents, addedCreate,
                   addedInstant, events, expiredGone, instantGone, seenAgg,
                   contributed, aggState, lastOut, baseSet, instantDelta, tags,
                   applyErrors, tickStart>>
    /\ UNCHANGED abilityVars
    /\ UNCHANGED registryVars
    /\ UNCHANGED auxVars

\* registry.register(definition) on a GameplayEffectRegistry.
RegisterEffect ==
    /\ Len(registerLog) < MaxRegisters
    /\ \E definition \in EffectDefinitions :
          /\ effect_definitions' =
                 GameplayEffectRegistry_register(effect_definitions, definition)
          /\ registerLog' = Append(registerLog, <<"effect", definition>>)
    /\ UNCHANGED ability_definitions
    /\ UNCHANGED <<attributes, effects, modifiers, nextId, nextModifier, pc,
                   postDone, delta, changedClamp, changedEvents, addedCreate,
                   addedInstant, events, expiredGone, instantGone, seenAgg,
                   contributed, aggState, lastOut, baseSet, instantDelta,
                   tickStart, requestVars, abilityVars>>
    /\ UNCHANGED auxVars

\* registry.register(definition) on an AbilityRegistry.
RegisterAbility ==
    /\ Len(registerLog) < MaxRegisters
    /\ \E definition \in AbilityDefinitions :
          /\ ability_definitions' =
                 AbilityRegistry_register(ability_definitions, definition)
          /\ registerLog' = Append(registerLog, <<"ability", definition>>)
    /\ UNCHANGED effect_definitions
    /\ UNCHANGED <<attributes, effects, modifiers, nextId, nextModifier, pc,
                   postDone, delta, changedClamp, changedEvents, addedCreate,
                   addedInstant, events, expiredGone, instantGone, seenAgg,
                   contributed, aggState, lastOut, baseSet, instantDelta,
                   tickStart, requestVars, abilityVars>>
    /\ UNCHANGED auxVars

\* ------------------------------------------------------------- Update
\* apply_gameplay_effect_system: the first system of the chain; its body is
\* empty.  The frame starts here with a new delta time.
apply_gameplay_effect ==
    /\ delta' \in 1..MaxDelta
    /\ postDone' = {}
    /\ events' = {}
    /\ applyRequests' = <<>>
    /\ UNCHANGED <<attributes, effects, modifiers, nextId, nextModifier,
                   changedClamp, changedEvents, addedCreate, addedInstant,
                   expiredGone, instantGone, seenAgg, contributed, aggState,
                   lastOut, baseSet, instantDelta, tags, applyErrors,
                   tickStart>>
    /\ UNCHANGED abilityVars
    /\ UNCHANGED registryVars
    /\ UNCHANGED auxVars

apply_gameplay_effect_system ==
    /\ pc \in {"idle", "end"}
    /\ pc' = "create"
    /\ apply_gameplay_effect

\* The modifier entities create_effect_modifiers_system spawns for effect e,
\* the first with creation stamp `stamp`.
modifiers_for(e, stamp) ==
    LET def == GameplayEffectRegistry[effects[e].definition_id]
        source_value == NoneF
    IN  [i \in 1..Len(def.modifiers) |->
            [target_entity |-> effects[e].target,
             target_attribute |-> def.modifiers[i].attribute_name,
             operation |-> def.modifiers[i].operation,
             magnitude |-> evaluate(def.modifiers[i].magnitude,
                                    effects[e].level, source_value),
             source |-> e,
             created |-> stamp + i - 1]]

RECURSIVE spawn_modifiers(_, _, _)
spawn_modifiers(tab, order, stamp) ==
    IF order = <<>> THEN tab
    ELSE LET new == modifiers_for(Head(order), stamp)
         IN  spawn_modifiers(tab \o new, Tail(order), stamp + Len(new))

\* One AttributeModifier per ModifierInfo for every effect entity, added
\* since the last run or not.
create_effect_modifiers_every_run ==
    /\ \E order \in Orders(DOMAIN effects) :
        /\ modifiers' = spawn_modifiers(modifiers, order, nextModifier)
        /\ nextModifier' = nextModifier + Len(modifiers') - Len(modifiers)
    /\ addedCreate' = {}
    /\ aggState' = IF modifiers' # modifiers THEN "changed" ELSE aggState
    /\ lastOut' = IF aggState' = "changed" THEN NoOut ELSE lastOut
    /\ UNCHANGED <<attributes, effects, nextId, postDone, delta, changedClamp,
                   changedEvents, addedInstant, events, expiredGone,
                   instantGone, seenAgg, contributed, baseSet, instantDelta>>
    /\ UNCHANGED tickStart
    /\ UNCHANGED requestVars
    /\ UNCHANGED abilityVars
    /\ UNCHANGED registryVars
    /\ UNCHANGED auxVars

\* One AttributeModifier per ModifierInfo for every effect added since the
\* last run.
create_effect_modifiers ==
    /\ \E order \in Orders(addedCreate \cap DOMAIN effects) :
        /\ modifiers' = spawn_modifiers(modifiers, order, nextModifier)
        /\ nextModifier' = nextModifier + Len(modifiers') - Len(modifiers)
    /\ addedCreate' = {}
    /\ aggState' = IF modifiers' # modifiers THEN "changed" ELSE aggState
    /\ lastOut' = IF aggState' = "changed" THEN NoOut ELSE lastOut
    /\ UNCHANGED <<attributes, effects, nextId, postDone, delta, changedClamp,
                   changedEvents, addedInstant, events, expiredGone,
                   instantGone, seenAgg, contributed, baseSet, instantDelta>>
    /\ UNCHANGED tickStart
    /\ UNCHANGED requestVars
    /\ UNCHANGED abilityVars
    /\ UNCHANGED registryVars
    /\ UNCHANGED auxVars

create_effect_modifiers_system ==
    /\ pc = "create"
    /\ pc' = "durations"
    /\ create_effect_modifiers

\* EffectDuration::tick(delta) for every effect with an EffectDuration.
update_effect_durations ==
    /\ effects' = [e \in DOMAIN effects |->
                      IF effects[e].has_duration
                      THEN EffectDuration_tick(effects[e], delta)
                      ELSE effects[e]]
    /\ UNCHANGED <<attributes, modifiers, nextId, nextModifier, postDone,
                   delta, changedClamp, changedEvents, addedCreate,
                   addedInstant, events, expiredGone, instantGone, seenAgg,
                   contributed, aggState, lastOut, baseSet, instantDelta>>
    /\ UNCHANGED tickStart
    /\ UNCHANGED requestVars
    /\ UNCHANGED abilityVars
    /\ UNCHANGED registryVars
    /\ UNCHANGED auxVars

update_effect_durations_system ==
    /\ pc = "durations"
    /\ pc' = "periodic"
    /\ update_effect_durations

\* PeriodicEffect::tick(delta) for every effect with a PeriodicEffect.
execute_periodic_effects ==
    /\ effects' = [e \in DOMAIN effects |->
                      IF effects[e].has_periodic
                      THEN PeriodicEffect_tick(effects[e], delta)
                      ELSE effects[e]]
    /\ UNCHANGED <<attributes, modifiers, nextId, nextModifier, postDone,
                   delta, changedClamp, changedEvents, addedCreate,
                   addedInstant, events, expiredGone, instantGone, seenAgg,
                   contributed, aggState, lastOut, baseSet, instantDelta>>
    /\ UNCHANGED tickStart
    /\ UNCHANGED requestVars
    /\ UNCHANGED abilityVars
    /\ UNCHANGED registryVars
    /\ UNCHANGED auxVars

execute_periodic_effects_system ==
    /\ pc = "periodic"
    /\ pc' = "expired"
    /\ execute_periodic_effects

\* The modifier entities remove_expired_effects_system despawns, in command
\* order, when it visits the expired effects in the order `order`.
\* Every modifier entity as a victim as soon as one effect has expired.
expired_victims_all(tab, order) == IF order = <<>> THEN <<>> ELSE tab

RECURSIVE expired_victims(_, _)
expired_victims(tab, order) ==
    IF order = <<>> THEN <<>>
    ELSE modifiers_of(tab, Head(order)) \o expired_victims(tab, Tail(order))

\* The despawn commands of remove_expired_effects_system for the modifiers of
\* the expired effects, applied to the table.
remove_modifiers(tab, order) ==
    despawn_modifiers(tab, expired_victims(tab, order))

\* The despawn of every expired effect and of its modifiers.
remove_expired_effects ==
    /\ LET expired == {e \in DOMAIN effects :
                          effects[e].has_duration /\ is_expired(effects[e])}
       IN  /\ \E order \in Orders(expired) :
                modifiers' = remove_modifiers(modifiers, order)
           /\ effects' = Restrict(effects, DOMAIN effects \ expired)
           /\ expiredGone' = expiredGone \cup expired
           /\ addedCreate' = addedCreate \ expired
           /\ addedInstant' = addedInstant \ expired
    /\ aggState' = IF modifiers' # modifiers THEN "changed" ELSE aggState
    /\ lastOut' = IF aggState' = "changed" THEN NoOut ELSE lastOut
    /\ UNCHANGED <<attributes, nextId, nextModifier, postDone, delta,
                   changedClamp, changedEvents, events, instantGone, seenAgg,
                   contributed, baseSet, instantDelta>>
    /\ UNCHANGED tickStart
    /\ UNCHANGED requestVars
    /\ UNCHANGED abilityVars
    /\ UNCHANGED registryVars
    /\ UNCHANGED auxVars

remove_expired_effects_system ==
    /\ pc = "expired"
    /\ pc' = "instant"
    /\ remove_expired_effects

\* The sum of the AddBase magnitudes the modifier infos `mods` carry for a.
RECURSIVE add_base_sum(_, _)
add_base_sum(a, mods) ==
    IF mods = <<>> THEN R(0)
    ELSE RAdd(IF /\ Head(mods).operation = "AddBase"
                 /\ Head(mods).attribute_name = AttributeName[a]
              THEN evaluate(Head(mods).magnitude, 1, NoneF) ELSE R(0),
              add_base_sum(a, Tail(mods)))

RECURSIVE add_base_of(_, _)
add_base_of(a, gone) ==
    IF gone = {} THEN R(0)
    ELSE LET e == CHOOSE x \in gone : TRUE
         IN  RAdd(IF effects[e].target = AttributeOwner[a]
                  THEN add_base_sum(a,
                           GameplayEffectRegistry[effects[e].definition_id].modifiers)
                  ELSE R(0),
                  add_base_of(a, gone \ {e}))

\* The despawn of every Instant effect added since the last run.
remove_instant_effects ==
    /\ LET instant ==
               {e \in addedInstant \cap DOMAIN effects :
                   IsInstant(effects[e].definition_id)}
       IN  /\ effects' = Restrict(effects, DOMAIN effects \ instant)
           /\ instantGone' = instantGone \cup instant
           /\ addedCreate' = addedCreate \ instant
           /\ instantDelta' = [a \in AttrIds |->
                                  RAdd(instantDelta[a], add_base_of(a, instant))]
    /\ addedInstant' = {}
    /\ UNCHANGED <<attributes, modifiers, nextId, nextModifier, postDone,
                   delta, changedClamp, changedEvents, events, expiredGone,
                   seenAgg, contributed, aggState, lastOut, baseSet>>
    /\ UNCHANGED tickStart
    /\ UNCHANGED requestVars
    /\ UNCHANGED abilityVars
    /\ UNCHANGED registryVars
    /\ UNCHANGED auxVars

remove_instant_effects_system ==
    /\ pc = "instant"
    /\ pc' = "post"
    /\ remove_instant_effects

\* ------------------------------------------------------------- PostUpdate
\* The recomputation of every current_value from base_value and the
\* modifiers.
aggregate_attribute_modifiers ==
    /\ LET out == [a \in AttrIds |-> aggregate(attributes[a], a, modifiers)]
           written == {a \in AttrIds : out[a] # attributes[a].current_value}
       IN  /\ attributes' = [a \in AttrIds |->
                                [attributes[a] EXCEPT !.current_value = out[a]]]
           /\ changedClamp' = changedClamp \cup written
           /\ changedEvents' = changedEvents \cup written
           /\ lastOut' = out
    /\ aggState' = IF aggState = "changed" THEN "fresh" ELSE "rerun"
    /\ seenAgg' = nextId
    /\ contributed' =
           contributed \cup {modifiers[i].source : i \in 1..Len(modifiers)}
    /\ UNCHANGED <<effects, modifiers, nextId, nextModifier, delta,
                   addedCreate, addedInstant, events, expiredGone, instantGone,
                   baseSet, instantDelta>>
    /\ UNCHANGED requestVars
    /\ UNCHANGED abilityVars
    /\ UNCHANGED registryVars

aggregate_attribute_modifiers_system ==
    /\ post_step("aggregate")
    /\ aggregate_attribute_modifiers
    /\ tick_start_step
    /\ UNCHANGED auxVars

\* The same system, with what it read and wrote for every attribute kept.
aggregate_attribute_modifiers_recorded ==
    /\ post_step("aggregate")
    /\ aggregate_attribute_modifiers
    /\ tick_start_step
    /\ passRead' =
           [a \in AttrIds |->
               [done |-> TRUE,
                mods |-> {applicable_modifiers(a, modifiers)[i] :
                             i \in 1..Len(applicable_modifiers(a, modifiers))},
                base |-> attributes[a].base_value,
                out |-> attributes'[a].current_value]]
    /\ UNCHANGED cooldownClock
    /\ UNCHANGED unitVars

clamp_attributes_system ==
    /\ post_step("clamp")
    /\ LET visited == {a \in changedClamp : HasMetadata[a]}
           clamped == [a \in AttrIds |->
                          IF a \in visited
                          THEN [base_value |->
                                    clamp(AttributeMetadata[a],
                                          attributes[a].base_value),
                                current_value |->
                                    clamp(AttributeMetadata[a],
                                          attributes[a].current_value)]
                          ELSE attributes[a]]
       IN  /\ attributes' = clamped
           /\ changedEvents' =
                  changedEvents \cup {a \in AttrIds : clamped[a] # attributes[a]}
           /\ aggState' =
                  IF \E a \in AttrIds :
                        clamped[a].base_value # attributes[a].base_value
                  THEN "changed" ELSE aggState
           /\ baseSet' = [a \in AttrIds |->
                             IF clamped[a].base_value # attributes[a].base_value
                             THEN clamped[a].base_value ELSE baseSet[a]]
           /\ instantDelta' = [a \in AttrIds |->
                                  IF clamped[a].base_value # attributes[a].base_value
                                  THEN R(0) ELSE instantDelta[a]]
    /\ lastOut' = IF aggState' = "changed" THEN NoOut ELSE lastOut
    /\ changedClamp' = {}
    /\ UNCHANGED <<effects, modifiers, nextId, nextModifier, delta,
                   addedCreate, addedInstant, events, expiredGone, instantGone,
                   seenAgg, contributed>>
    /\ UNCHANGED requestVars
    /\ UNCHANGED abilityVars
    /\ UNCHANGED registryVars
    /\ UNCHANGED auxVars
    /\ tick_start_step

trigger_attribute_change_events_system ==
    /\ "clamp" \in postDone
    /\ post_step("events")
    /\ events' = events \cup
           {[owner |-> AttributeOwner[a], attribute |-> a,
             attribute_name |-> AttributeName[a],
             old_value |-> attributes[a].current_value,
             new_value |-> attributes[a].current_value] : a \in changedEvents}
    /\ changedEvents' = {}
    /\ UNCHANGED <<attributes, effects, modifiers, nextId, nextModifier, delta,
                   changedClamp, addedCreate, addedInstant, expiredGone,
                   instantGone, seenAgg, contributed, aggState, lastOut,
                   baseSet, instantDelta>>
    /\ UNCHANGED requestVars
    /\ UNCHANGED abilityVars
    /\ UNCHANGED registryVars
    /\ UNCHANGED auxVars
    /\ tick_start_step

\* ------------------------------------------------------------- ability systems
\* The systems AbilityPlugin adds to Update, in one tuple with no ordering.
AbilitySystems ==
    {"try_activate", "commit", "end", "cancel_by_tags", "update_states",
     "update_cooldowns"}

\* One system of the tuple runs, once per frame; the frame is over when all
\* have run, and the requests made for it are then gone.
ability_step(name) ==
    /\ name \notin abilityDone
    /\ LET last == abilityDone \cup {name} = AbilitySystems
       IN  /\ abilityDone' = IF last THEN {} ELSE abilityDone \cup {name}
           /\ tryRequests' = IF last THEN {} ELSE tryRequests
           /\ cancelRequests' = IF last THEN {} ELSE cancelRequests
           /\ commitRequests' = IF last THEN {} ELSE commitRequests
           /\ activeAtStart' =
                  IF last THEN {}
                  ELSE IF abilityDone = {}
                       THEN {s \in SpecIds : specs[s].is_active}
                       ELSE activeAtStart

\* A caller marks a spec active through the public field AbilitySpec::is_active
\* and spawns ActiveAbilityInstance::new for it (is_committed: false).
SetActive ==
    /\ abilityDone = {}
    /\ \E s \in SpecIds :
        /\ ~specs[s].is_active
        /\ specs' = [specs EXCEPT ![s].is_active = TRUE]
        /\ instances' = [instances EXCEPT ![s] = 1]
        /\ committed' = committed \ {s}
    /\ UNCHANGED <<cooldowns, tryRequests, cancelRequests, abilityDone, tags,
                   commitRequests, activeAtStart>>
    /\ UNCHANGED effectVars
    /\ UNCHANGED registryVars
    /\ UNCHANGED auxVars

\* A caller inserts AbilityCooldown::new(duration) on a spec entity.
InsertCooldown ==
    /\ abilityDone = {}
    /\ \E s \in SpecIds \ DOMAIN cooldowns, d \in CooldownDurations :
          cooldowns' = [x \in DOMAIN cooldowns \cup {s} |->
                           IF x = s THEN d ELSE cooldowns[x]]
    /\ UNCHANGED <<specs, instances, tryRequests, cancelRequests, abilityDone,
                   tags, commitRequests, committed, activeAtStart>>
    /\ UNCHANGED effectVars
    /\ UNCHANGED registryVars
    /\ UNCHANGED auxVars

\* A caller inserts AbilityCooldown::new(duration) on a spec entity; the time
\* the component lives through is counted from here.
InsertCooldownClocked ==
    /\ abilityDone = {}
    /\ \E s \in SpecIds \ DOMAIN cooldowns, d \in CooldownDurations :
          /\ cooldowns' = [x \in DOMAIN cooldowns \cup {s} |->
                               IF x = s THEN d ELSE cooldowns[x]]
          /\ cooldownClock' =
                 [x \in DOMAIN cooldownClock \cup {s} |->
                     IF x = s THEN [total |-> d, elapsed |-> 0]
                     ELSE cooldownClock[x]]
    /\ UNCHANGED passRead
    /\ UNCHANGED unitVars
    /\ UNCHANGED <<specs, instances, tryRequests, cancelRequests, abilityDone,
                   tags, commitRequests, committed, activeAtStart>>
    /\ UNCHANGED effectVars
    /\ UNCHANGED registryVars

\* A caller adds a tag to, or removes it from, the hero's
\* GameplayTagCountContainer.
UpdateTags ==
    /\ abilityDone = {}
    /\ \E t \in Tags :
          tags' = [tags EXCEPT !["hero"] =
                      IF t \in @ THEN @ \ {t} ELSE @ \cup {t}]
    /\ UNCHANGED abilityVars
    /\ UNCHANGED effectVars
    /\ UNCHANGED registryVars
    /\ UNCHANGED auxVars

\* commands.trigger(TryActivateAbilityEvent { ability_spec, owner }): no
\* observer of the event is registered.
TriggerTryActivate ==
    /\ abilityDone = {}
    /\ \E s \in SpecIds \ tryRequests : tryRequests' = tryRequests \cup {s}
    /\ UNCHANGED <<specs, instances, cooldowns, cancelRequests, abilityDone,
                   tags, commitRequests, committed, activeAtStart>>
    /\ UNCHANGED effectVars
    /\ UNCHANGED registryVars
    /\ UNCHANGED auxVars

\* commands.trigger(CancelAbilityEvent { ability_spec, owner }): no observer
\* of the event is registered.
TriggerCancel ==
    /\ abilityDone = {}
    /\ \E s \in SpecIds \ cancelRequests :
          cancelRequests' = cancelRequests \cup {s}
    /\ UNCHANGED <<specs, instances, cooldowns, tryRequests, abilityDone, tags,
                   commitRequests, committed, activeAtStart>>
    /\ UNCHANGED effectVars
    /\ UNCHANGED registryVars
    /\ UNCHANGED auxVars

\* commands.trigger(CommitAbilityEvent { ability_spec, owner }) for an active
\* spec: no observer of the event is registered.
TriggerCommit ==
    /\ abilityDone = {}
    /\ \E s \in SpecIds \ commitRequests :
          /\ specs[s].is_active
          /\ commitRequests' = commitRequests \cup {s}
    /\ UNCHANGED <<specs, instances, cooldowns, tryRequests, cancelRequests,
                   abilityDone, tags, committed, activeAtStart>>
    /\ UNCHANGED effectVars
    /\ UNCHANGED registryVars
    /\ UNCHANGED auxVars

\* What try_activate_ability_system does to the specs named by the requests:
\* its body is empty.
try_activate_unchecked(ss, reqs) ==
    [s \in SpecIds |->
        IF s \in reqs
        THEN [ss[s] EXCEPT !.is_active = TRUE, !.state = "Active"]
        ELSE ss[s]]

try_activate(ss, reqs) == ss

try_activate_ability_system ==
    /\ ability_step("try_activate")
    /\ specs' = try_activate(specs, tryRequests)
    /\ UNCHANGED <<instances, cooldowns, tags, committed>>
    /\ UNCHANGED effectVars
    /\ UNCHANGED registryVars
    /\ UNCHANGED auxVars

\* commit_ability_system: its body is empty.
commit_ability_system ==
    /\ ability_step("commit")
    /\ UNCHANGED <<specs, instances, cooldowns, tags, committed>>
    /\ UNCHANGED effectVars
    /\ UNCHANGED registryVars
    /\ UNCHANGED auxVars

\* The specs end_ability_system ends.
ends(s) == specs[s].is_active /\ specs[s].state = "Active"

\* spec.is_active = false; *state = AbilityState::Ready for the specs in
\* ended, without the despawn of their instances.
end_specs_keep_instances(ended) ==
    /\ specs' = [s \in SpecIds |->
                    IF s \in ended
                    THEN [specs[s] EXCEPT !.is_active = FALSE, !.state = "Ready"]
                    ELSE specs[s]]
    /\ instances' = instances
    /\ committed' = committed

\* spec.is_active = false; *state = AbilityState::Ready, and the despawn of
\* the instances of the spec, for the specs in ended.
end_specs(ended) ==
    /\ specs' = [s \in SpecIds |->
                    IF s \in ended
                    THEN [specs[s] EXCEPT !.is_active = FALSE, !.state = "Ready"]
                    ELSE specs[s]]
    /\ instances' = [s \in SpecIds |-> IF s \in ended THEN 0 ELSE instances[s]]
    /\ committed' = committed \ ended

end_ability_system ==
    /\ ability_step("end")
    /\ end_specs({s \in SpecIds : ends(s)})
    /\ UNCHANGED <<cooldowns, tags>>
    /\ UNCHANGED effectVars
    /\ UNCHANGED registryVars
    /\ UNCHANGED auxVars

\* should_cancel of cancel_abilities_by_tags_system for an active spec.
should_cancel(s) ==
    \E t \in AbilityRegistry[specs[s].definition_id].cancel_on_tags_added :
        has_matching_gameplay_tag(tags[AbilityOwner[s]], t)

cancel_abilities_by_tags_system ==
    /\ ability_step("cancel_by_tags")
    /\ end_specs({s \in SpecIds : specs[s].is_active /\ should_cancel(s)})
    /\ UNCHANGED <<cooldowns, tags>>
    /\ UNCHANGED effectVars
    /\ UNCHANGED registryVars
    /\ UNCHANGED auxVars

\* let has_cooldown = cooldowns.iter().any(|cd| !cd.is_expired())
has_cooldown(s) ==
    \E c \in DOMAIN cooldowns : ~cooldown_is_expired(cooldowns[c])

\* The state of spec s by cooldowns and tags alone, without the is_active
\* branch.
updated_state_without_active(s) ==
    IF has_cooldown(s) THEN "Cooldown"
    ELSE IF ~check_ability_activation_requirements(
                AbilityRegistry[specs[s].definition_id], tags[AbilityOwner[s]])
         THEN "Blocked"
    ELSE "Ready"

\* The state update_ability_states_system gives spec s.
updated_state(s) ==
    IF specs[s].is_active THEN "Active"
    ELSE IF has_cooldown(s) THEN "Cooldown"
    ELSE IF ~check_ability_activation_requirements(
                AbilityRegistry[specs[s].definition_id], tags[AbilityOwner[s]])
         THEN "Blocked"
    ELSE "Ready"

update_ability_states_system ==
    /\ ability_step("update_states")
    /\ specs' = [s \in SpecIds |-> [specs[s] EXCEPT !.state = updated_state(s)]]
    /\ UNCHANGED <<instances, cooldowns, tags, committed>>
    /\ UNCHANGED effectVars
    /\ UNCHANGED registryVars
    /\ UNCHANGED auxVars

\* update_ability_cooldowns_system: AbilityCooldown::tick(time.delta_secs()),
\* then the removal of the component when it has expired.
update_ability_cooldowns_system ==
    /\ ability_step("update_cooldowns")
    /\ \E dt \in 1..MaxDelta :
          LET ticked == [c \in DOMAIN cooldowns |-> cooldowns[c] - dt]
              kept == {c \in DOMAIN cooldowns : ~cooldown_is_expired(ticked[c])}
          IN  /\ cooldowns' = Restrict(ticked, kept)
              /\ cooldownClock' =
                     [c \in DOMAIN cooldownClock |->
                         IF c \in DOMAIN cooldowns
                         THEN [cooldownClock[c] EXCEPT !.elapsed = @ + dt]
                         ELSE cooldownClock[c]]
    /\ UNCHANGED passRead
    /\ UNCHANGED unitVars
    /\ UNCHANGED <<specs, instances, tags, committed>>
    /\ UNCHANGED effectVars
    /\ UNCHANGED registryVars

\* ------------------------------------------------------------- system sets
\* The chain of EffectSystemSet that configure_gas_system_sets configures.
EffectSystemSets ==
    <<"Apply", "CreateModifiers", "Aggregate", "UpdateDurations",
      "ExecutePeriodic", "RemoveExpired", "RemoveInstant">>

set_position(name) ==
    CHOOSE i \in 1..Len(EffectSystemSets) : EffectSystemSets[i] = name

\* The sets of the chain that run before the set `name`.
sets_before(name) == {EffectSystemSets[i] : i \in 1..(set_position(name) - 1)}

\* The set `name` runs: the first of the chain at the start of a frame, every
\* other one when the set before it in the chain has run.  PostUpdate follows
\* the last.
set_step(name) ==
    /\ IF set_position(name) = 1 THEN pc \in {"idle", "end"} ELSE pc = name
    /\ pc' = IF set_position(name) = Len(EffectSystemSets) THEN "post"
             ELSE EffectSystemSets[set_position(name) + 1]

\* The systems of an app that calls configure_gas_system_sets and adds every
\* effect system to Update in the set named for it.
EffectSystemSet_Apply ==
    /\ set_step("Apply")
    /\ apply_gameplay_effect

EffectSystemSet_CreateModifiers ==
    /\ set_step("CreateModifiers")
    /\ create_effect_modifiers

\* The aggregation runs in Update and not again in PostUpdate.
EffectSystemSet_Aggregate ==
    /\ set_step("Aggregate")
    /\ postDone' = postDone \cup {"aggregate"}
    /\ aggregate_attribute_modifiers
    /\ UNCHANGED tickStart
    /\ UNCHANGED auxVars

EffectSystemSet_UpdateDurations ==
    /\ set_step("UpdateDurations")
    /\ update_effect_durations

EffectSystemSet_ExecutePeriodic ==
    /\ set_step("ExecutePeriodic")
    /\ execute_periodic_effects

EffectSystemSet_RemoveExpired ==
    /\ set_step("RemoveExpired")
    /\ remove_expired_effects

EffectSystemSet_RemoveInstant ==
    /\ set_step("RemoveInstant")
    /\ remove_instant_effects

\* An effect entity that exists when the CreateModifiers set runs.
SpawnEffectInSets ==
    /\ pc = "CreateModifiers"
    /\ pc' = pc
    /\ \E req \in SpawnRequests : spawn_effect(req[1], req[2])

\* ------------------------------------------------------------- specification
Next ==
    \/ SpawnEffect
    \/ SpawnEffectDeferred
    \/ SetBaseValue
    \/ apply_gameplay_effect_system
    \/ create_effect_modifiers_system
    \/ update_effect_durations_system
    \/ execute_periodic_effects_system
    \/ remove_expired_effects_system
    \/ remove_instant_effects_system
    \/ aggregate_attribute_modifiers_system
    \/ clamp_attributes_system
    \/ trigger_attribute_change_events_system

Spec == Init /\ [][Next]_vars

\* The app of a caller that applies effects only through
\* ApplyGameplayEffectEvent: the same schedules, with the event as the only
\* input.
NextRequests ==
    \/ TriggerApplyEffect
    \/ apply_gameplay_effect_system
    \/ create_effect_modifiers_system
    \/ update_effect_durations_system
    \/ execute_periodic_effects_system
    \/ remove_expired_effects_system
    \/ remove_instant_effects_system
    \/ aggregate_attribute_modifiers_system
    \/ clamp_attributes_system
    \/ trigger_attribute_change_events_system

SpecRequests == Init /\ [][NextRequests]_vars

\* The effect systems run in the order of the EffectSystemSet chain; the
\* systems of AttributePlugin in PostUpdate.
NextSets ==
    \/ SpawnEffectInSets
    \/ EffectSystemSet_Apply
    \/ EffectSystemSet_CreateModifiers
    \/ EffectSystemSet_Aggregate
    \/ EffectSystemSet_UpdateDurations
    \/ EffectSystemSet_ExecutePeriodic
    \/ EffectSystemSet_RemoveExpired
    \/ EffectSystemSet_RemoveInstant
    \/ clamp_attributes_system
    \/ trigger_attribute_change_events_system

SpecSets == Init /\ [][NextSets]_vars

\* The app of a caller that applies effects with an instigator and a level.
NextInstigated ==
    \/ SpawnEffectFrom
    \/ apply_gameplay_effect_system
    \/ create_effect_modifiers_system
    \/ update_effect_durations_system
    \/ execute_periodic_effects_system
    \/ remove_expired_effects_system
    \/ remove_instant_effects_system
    \/ aggregate_attribute_modifiers_system
    \/ clamp_attributes_system
    \/ trigger_attribute_change_events_system

SpecInstigated == Init /\ [][NextInstigated]_vars

\* The effect and attribute systems with effects spawned on two targets.
NextTargets ==
    \/ SpawnEffectOn
    \/ apply_gameplay_effect_system
    \/ create_effect_modifiers_system
    \/ update_effect_durations_system
    \/ execute_periodic_effects_system
    \/ remove_expired_effects_system
    \/ remove_instant_effects_system
    \/ aggregate_attribute_modifiers_recorded
    \/ clamp_attributes_system
    \/ trigger_attribute_change_events_system

SpecTargets == Init /\ [][NextTargets]_vars

\* One PeriodicEffect ticked by a caller.
NextPeriodic ==
    \/ NewPeriodic
    \/ TickPeriodic

SpecPeriodic == Init /\ [][NextPeriodic]_vars

\* A caller of the GameplayCueManager.
NextCues ==
    \/ ExecuteCue
    \/ StartBatching
    \/ EndBatching

SpecCues == Init /\ [][NextCues]_vars

\* A caller that gives owners their attribute sets.
NextAttributeSets ==
    \/ CreateAttributes

SpecAttributeSets == Init /\ [][NextAttributeSets]_vars

\* A caller of a type generated by define_attribute!.
NextMacro ==
    \/ MacroConstruct
    \/ MacroSetCurrentValue
    \/ MacroSetBaseValue

SpecMacro == Init /\ [][NextMacro]_vars

\* A caller that fills the two registries.
NextRegistry ==
    \/ RegisterEffect
    \/ RegisterAbility

SpecRegistry == Init /\ [][NextRegistry]_vars

\* The ability systems of AbilityPlugin with callers that insert cooldowns
\* and change tags.
NextCooldowns ==
    \/ InsertCooldownClocked
    \/ UpdateTags
    \/ try_activate_ability_system
    \/ commit_ability_system
    \/ end_ability_system
    \/ cancel_abilities_by_tags_system
    \/ update_ability_states_system
    \/ update_ability_cooldowns_system

\* Every system of the Update schedule runs in every frame, and every frame
\* has a positive delta.
SpecCooldowns ==
    /\ Init
    /\ [][NextCooldowns]_vars
    /\ WF_vars(try_activate_ability_system)
    /\ WF_vars(commit_ability_system)
    /\ WF_vars(end_ability_system)
    /\ WF_vars(cancel_abilities_by_tags_system)
    /\ WF_vars(update_ability_states_system)
    /\ WF_vars(update_ability_cooldowns_system)

\* The ability systems of AbilityPlugin with their callers.
NextAbilities ==
    \/ SetActive
    \/ InsertCooldown
    \/ UpdateTags
    \/ TriggerTryActivate
    \/ TriggerCancel
    \/ TriggerCommit
    \/ try_activate_ability_system
    \/ commit_ability_system
    \/ end_ability_system
    \/ cancel_abilities_by_tags_system
    \/ update_ability_states_system
    \/ update_ability_cooldowns_system

SpecAbilities == Init /\ [][NextAbilities]_vars


\* ------------------------------------------------------------- properties
\* The step in which aggregate_attribute_modifiers_system runs.
AggStep == pc = "post" /\ "aggregate" \notin postDone /\ "aggregate" \in postDone'

\* The aggregation pass of this frame has run.
Aggregated == pc \in {"post", "end"} /\ "aggregate" \in postDone

Applicable(a) == applicable_modifiers(a, modifiers)

HasOp(a, op) ==
    \E i \in 1..Len(Applicable(a)) : Applicable(a)[i].operation = op

CountOp(a, op) ==
    Cardinality({i \in 1..Len(Applicable(a)) : Applicable(a)[i].operation = op})

InRange(metadata, v) ==
    /\ metadata.min_value.some => RLe(metadata.min_value.v, v)
    /\ metadata.max_value.some => RLe(v, metadata.max_value.v)

RECURSIVE SumOf(_, _)
SumOf(s, op) ==
    IF s = <<>> THEN R(0)
    ELSE RAdd(IF Head(s).operation = op THEN Head(s).magnitude ELSE R(0),
              SumOf(Tail(s), op))

RECURSIVE ProductOf(_, _)
ProductOf(s, op) ==
    IF s = <<>> THEN R(1)
    ELSE RMul(IF Head(s).operation = op
              THEN RAdd(R(1), Head(s).magnitude) ELSE R(1),
              ProductOf(Tail(s), op))

\* (base + sum AddCurrent) * (1 + sum MultiplyAdditive) * product (1 + m)
ClosedForm(a) ==
    RMul(RMul(RAdd(attributes[a].base_value, SumOf(Applicable(a), "AddCurrent")),
              RAdd(R(1), SumOf(Applicable(a), "MultiplyAdditive"))),
         ProductOf(Applicable(a), "MultiplyMultiplicative"))

\* C1: at the end of every tick, base_value and current_value of every
\* attribute with min/max metadata lie within [min_value, max_value].
C1_WithinBoundsAtTickEnd ==
    pc = "end" =>
        \A a \in AttrIds :
            HasMetadata[a] =>
                /\ InRange(AttributeMetadata[a], attributes[a].base_value)
                /\ InRange(AttributeMetadata[a], attributes[a].current_value)

\* C2: with no Override among the modifiers of an attribute, one aggregation
\* pass yields (base + sum of AddCurrent) * (1 + sum of MultiplyAdditive)
\* * product of (1 + MultiplyMultiplicative).
C2_AggregationFormula ==
    [][AggStep =>
        \A a \in AttrIds :
            ~HasOp(a, "Override") =>
                attributes'[a].current_value = ClosedForm(a)]_vars

\* C2 witness: base 100 with AddCurrent +20, MultiplyAdditive +0.5 and
\* MultiplyMultiplicative +0.1 has just been aggregated to 198.
C2_Witness ==
    /\ Aggregated
    /\ aggState # "changed"
    /\ attributes["hero.Health"].base_value = R(100)
    /\ CountOp("hero.Health", "AddCurrent") = 1
    /\ CountOp("hero.Health", "MultiplyAdditive") = 1
    /\ CountOp("hero.Health", "MultiplyMultiplicative") = 1
    /\ ~HasOp("hero.Health", "Override")
    /\ SumOf(Applicable("hero.Health"), "AddCurrent") = R(20)
    /\ lastOut["hero.Health"] = R(198)


\* The value the pass computes for a from the applicable modifiers that
\* satisfy keep, visited in storage order.
AggregateWhere(a, keep(_)) ==
    aggregate_in_order(attributes[a], SelectSeq(Applicable(a), keep))

DefinitionOf(e) == GameplayEffectRegistry[effects[e].definition_id]

\* C3: while a duration effect has time left its modifiers are among those
\* the aggregation pass reads; an instance whose remaining time is <= 0 is
\* removed with its modifiers before the pass of that tick, so the
\* current_value computed then and later excludes its contribution.
C3_ExpiryBeforeAggregation ==
    [][AggStep =>
        /\ \A e \in DOMAIN effects :
              effects[e].has_duration =>
                  /\ effects[e].remaining > 0
                  /\ e \notin addedCreate =>
                        Len(modifiers_of(modifiers, e))
                            = Len(DefinitionOf(e).modifiers)
        /\ \A a \in AttrIds :
              attributes'[a].current_value
                  = AggregateWhere(a, LAMBDA m : m.source \notin expiredGone)]_vars

\* C3 witness: an effect that took part in an earlier pass has expired and
\* this tick's pass has run without its modifiers.
C3_Witness ==
    /\ Aggregated
    /\ \E e \in expiredGone \cap contributed :
          modifiers_of(modifiers, e) = <<>>

\* C4: at the end of every tick the source effect instance of every
\* AttributeModifier still exists.
C4_NoOrphanModifiers ==
    pc = "end" =>
        \A i \in 1..Len(modifiers) : modifiers[i].source \in DOMAIN effects

IsInstantEffect(e) ==
    \/ e \in instantGone
    \/ e \in DOMAIN effects /\ IsInstant(effects[e].definition_id)

\* C5: from the second aggregation pass after the creation of an Instant
\* effect onwards, the instance no longer exists and no current_value
\* includes any of its modifiers.
C5_InstantGoneAfterOnePass ==
    [][AggStep =>
        \A e \in 1..(seenAgg - 1) :
            IsInstantEffect(e) =>
                /\ e \notin DOMAIN effects
                /\ \A a \in AttrIds :
                      attributes'[a].current_value
                          = AggregateWhere(a, LAMBDA m : m.source # e)]_vars

\* C6: an Instant effect with an AddBase modifier of magnitude m applied to an
\* attribute whose base_value is b leaves base_value = b + m at the end of the
\* tick and afterwards.
C6_InstantAddBaseFolds ==
    pc = "end" =>
        \A a \in AttrIds :
            LET expected == RAdd(baseSet[a], instantDelta[a])
            IN  (/\ instantDelta[a] # R(0)
                 /\ InRange(AttributeMetadata[a], baseSet[a])
                 /\ InRange(AttributeMetadata[a], expected))
                => attributes[a].base_value = expected

NoMultiply(a) ==
    ~HasOp(a, "MultiplyAdditive") /\ ~HasOp(a, "MultiplyMultiplicative")

\* C7: with AddCurrent and Override modifiers and no multiply modifiers on an
\* attribute, the aggregated value is the magnitude of an Override,
\* whatever the order in which the modifiers were created.
C7_OverrideAfterAddCurrent ==
    [][AggStep =>
        \A a \in AttrIds :
            (HasOp(a, "AddCurrent") /\ HasOp(a, "Override") /\ NoMultiply(a)) =>
                \E i \in 1..Len(Applicable(a)) :
                    /\ Applicable(a)[i].operation = "Override"
                    /\ attributes'[a].current_value = Applicable(a)[i].magnitude]_vars

\* C7 witness: an Override created before an AddCurrent on the same
\* attribute; the pass produced the Override's magnitude.
C7_Witness ==
    /\ Aggregated
    /\ aggState # "changed"
    /\ NoMultiply("hero.Health")
    /\ CountOp("hero.Health", "Override") = 1
    /\ \E i, j \in 1..Len(Applicable("hero.Health")) :
          /\ i < j
          /\ Applicable("hero.Health")[i].operation = "Override"
          /\ Applicable("hero.Health")[j].operation = "AddCurrent"
          /\ lastOut["hero.Health"] = Applicable("hero.Health")[i].magnitude

\* C8: with two or more Override modifiers on an attribute (and no multiply
\* modifiers), the Override created last determines the aggregated value.
C8_LastCreatedOverrideWins ==
    [][AggStep =>
        \A a \in AttrIds :
            (CountOp(a, "Override") >= 2 /\ NoMultiply(a)) =>
                LET ovr == {i \in 1..Len(Applicable(a)) :
                               Applicable(a)[i].operation = "Override"}
                    last == CHOOSE i \in ovr :
                               \A j \in ovr :
                                   Applicable(a)[j].created
                                       <= Applicable(a)[i].created
                IN  attributes'[a].current_value = Applicable(a)[last].magnitude]_vars

DistinctOperations(a) ==
    \A i, j \in 1..Len(Applicable(a)) :
        i # j => Applicable(a)[i].operation # Applicable(a)[j].operation

\* C9: when the modifiers of an attribute all have different operations, the
\* aggregated value is the same for every order in which they are visited.
C9_OrderIndependent ==
    [][AggStep =>
        \A a \in AttrIds :
            DistinctOperations(a) =>
                \A o \in Orders(1..Len(Applicable(a))) :
                    aggregate_in_order(attributes[a],
                        [i \in 1..Len(Applicable(a)) |-> Applicable(a)[o[i]]])
                    = attributes'[a].current_value]_vars

\* C9 witness: three or more modifiers with different operations, stored in
\* an order that is not the priority order, have been aggregated.
C9_Witness ==
    /\ Aggregated
    /\ aggState # "changed"
    /\ Len(Applicable("hero.Health")) >= 3
    /\ DistinctOperations("hero.Health")
    /\ \E i, j \in 1..Len(Applicable("hero.Health")) :
          /\ i < j
          /\ Applicable("hero.Health")[i].operation = "Override"
          /\ Applicable("hero.Health")[j].operation # "Override"

\* C10: an aggregation pass that runs with the modifiers and base values of
\* the previous pass produces the values the previous pass produced.
C10_Idempotent ==
    [][(AggStep /\ aggState # "changed") =>
        \A a \in AttrIds : attributes'[a].current_value = lastOut[a]]_vars

\* C10 witness: the pass has run again on unchanged inputs and produced 120
\* again, although the stored value had been clamped to 100 in between.
C10_Witness ==
    /\ pc = "end"
    /\ aggState = "rerun"
    /\ lastOut["hero.Health"] = R(120)
    /\ attributes["hero.Health"].current_value = R(100)

\* The step in which execute_periodic_effects_system runs.
PeriodicStep == pc = "periodic" /\ pc' = "expired"

\* The period boundaries a timer with time_until_next > 0 crosses in dt.
boundaries_crossed(effect, dt) ==
    IF dt < effect.time_until_next THEN 0
    ELSE ((dt - effect.time_until_next) \div effect.period) + 1

\* C11: in one tick of length dt a periodic effect executes once for every
\* period boundary crossed, and after the tick time_until_next is greater
\* than 0.
C11_PeriodicCatchUp ==
    [][PeriodicStep =>
        \A e \in DOMAIN effects :
            (effects[e].has_periodic /\ effects[e].time_until_next > 0) =>
                /\ periodic_executions(effects[e], delta)
                       = boundaries_crossed(effects[e], delta)
                /\ effects'[e].time_until_next > 0]_vars

\* The step in which apply_gameplay_effect_system runs: the pass of the tick
\* that handles the apply requests made since the previous tick.
ApplyStep == pc \in {"idle", "end"} /\ pc' = "create"

\* The pending requests to apply effect id to the hero.
requests_for(id) ==
    Cardinality({i \in 1..Len(applyRequests) :
                    /\ applyRequests[i].effect_id = id
                    /\ applyRequests[i].target = "hero"})

\* The active instances of definition id on target among the effects effs.
instances_of(effs, id, target) ==
    {e \in DOMAIN effs :
        effs[e].definition_id = id /\ effs[e].target = target}

Min(x, y) == IF x < y THEN x ELSE y

\* C12: every apply request for a registered definition with Independent
\* stacking creates one new instance of that definition on the target; n
\* requests create n instances.
C12_IndependentCreatesInstance ==
    [][ApplyStep =>
        \A id \in DefIds :
            GameplayEffectRegistry[id].stacking_policy = "Independent" =>
                Cardinality(instances_of(effects', id, "hero"))
                    = Cardinality(instances_of(effects, id, "hero"))
                          + requests_for(id)]_vars

\* C13: applying a RefreshDuration effect again (a second request, or a
\* request when an instance exists) leaves exactly one instance of the
\* definition on the target, with remaining reset to total.
C13_RefreshDurationSingleInstance ==
    [][ApplyStep =>
        \A id \in DefIds :
            (/\ GameplayEffectRegistry[id].stacking_policy = "RefreshDuration"
             /\ requests_for(id) >= 1
             /\ Cardinality(instances_of(effects, id, "hero"))
                    + requests_for(id) >= 2) =>
                /\ Cardinality(instances_of(effects', id, "hero")) = 1
                /\ \A e \in instances_of(effects', id, "hero") :
                       effects'[e].remaining = effects'[e].total]_vars

\* C14: after k applications of a StackCount{max_stacks} effect to a target
\* there is one instance, with stack_count = min(k, max_stacks).
C14_StackCountCapped ==
    [][ApplyStep =>
        \A id \in DefIds :
            (/\ GameplayEffectRegistry[id].stacking_policy = "StackCount"
             /\ requests_for(id) >= 1
             /\ instances_of(effects, id, "hero") = {}) =>
                /\ Cardinality(instances_of(effects', id, "hero")) = 1
                /\ \A e \in instances_of(effects', id, "hero") :
                       effects'[e].stack_count
                           = Min(requests_for(id),
                                 GameplayEffectRegistry[id].max_stacks)]_vars

\* C15: an apply request naming an unregistered definition id reports a
\* DefinitionNotFound error to the caller and creates no effect instance, no
\* modifier and no attribute change.
C15_UnknownDefinitionReported ==
    [][ApplyStep =>
        \A i \in 1..Len(applyRequests) :
            ~is_registered(applyRequests[i].effect_id) =>
                /\ [error |-> "DefinitionNotFound",
                    effect_id |-> applyRequests[i].effect_id] \in applyErrors'
                /\ effects' = effects
                /\ modifiers' = modifiers
                /\ attributes' = attributes]_vars

\* The tags the effects on target grant, by their definitions.
granted_to(target) ==
    UNION {GameplayEffectRegistry[effects[e].definition_id].granted_tags :
              e \in {x \in DOMAIN effects : effects[x].target = target}}

\* C16: at the end of every tick a target holds every tag in the granted_tags
\* of the definition of each effect instance that exists on it.
C16_GrantedTagsHeld ==
    pc = "end" => \A o \in Owners : granted_to(o) \subseteq tags[o]

\* The step in which the ability system `name` runs.
AbilityStepOf(name) ==
    /\ name \notin abilityDone
    /\ \/ abilityDone' = abilityDone \cup {name}
       \/ abilityDone \cup {name} = AbilitySystems /\ abilityDone' = {}

\* C17: a spec that is Active, for which no cancel request has been made and
\* whose owner holds none of its cancel_on_tags_added, is still Active after
\* any step.
C17_ActiveUntilEndOrCancel ==
    [][\A s \in SpecIds :
          (/\ specs[s].is_active
           /\ specs[s].state = "Active"
           /\ s \notin cancelRequests
           /\ ~should_cancel(s)) =>
              specs'[s].is_active /\ specs'[s].state = "Active"]_vars

\* An unexpired cooldown timer that belongs to spec s exists.
has_cooldown_own(s) ==
    s \in DOMAIN cooldowns /\ ~cooldown_is_expired(cooldowns[s])

\* The state a spec is to show: Active, else Cooldown by its own timers,
\* else Blocked by the owner's tags, else Ready.
expected_state(s) ==
    IF specs[s].is_active THEN "Active"
    ELSE IF has_cooldown_own(s) THEN "Cooldown"
    ELSE IF ~check_ability_activation_requirements(
                AbilityRegistry[specs[s].definition_id], tags[AbilityOwner[s]])
         THEN "Blocked"
    ELSE "Ready"

\* C18: after each run of update_ability_states_system every spec's state is
\* Active if is_active, else Cooldown if an unexpired cooldown timer of that
\* spec exists, else Blocked if the tag check fails, else Ready.
C18_StateByOwnCooldown ==
    [][AbilityStepOf("update_states") =>
        \A s \in SpecIds : specs'[s].state = expected_state(s)]_vars

\* A try_activate request for s is to be rejected.
rejects(s) ==
    \/ specs[s].is_active
    \/ ~check_ability_activation_requirements(
            AbilityRegistry[specs[s].definition_id], tags[AbilityOwner[s]])
    \/ has_cooldown_own(s)

\* C19: handling a try_activate request for a spec that is already active,
\* fails the tag check or has an unexpired cooldown changes neither
\* is_active, nor the state, nor the active instances.
C19_RejectedActivationNoTransition ==
    [][AbilityStepOf("try_activate") =>
        \A s \in tryRequests :
            rejects(s) =>
                /\ specs'[s] = specs[s]
                /\ instances' = instances]_vars

\* C19 witness: a request for the fireball was handled while the hero was
\* stunned; the spec is not active and has no instance.
C19_Witness ==
    /\ "try_activate" \in abilityDone
    /\ "spec.fireball" \in tryRequests
    /\ "State.Stunned" \in tags["hero"]
    /\ ~specs["spec.fireball"].is_active
    /\ specs["spec.fireball"].state = "Blocked"
    /\ instances["spec.fireball"] = 0

\* C20: a try_activate request for a spec that was shown Blocked, made when
\* the owner holds the required tags and no longer holds a blocked tag (and
\* the spec is not active and no cooldown is running), makes the spec Active.
C20_UnblockedActivationSucceeds ==
    [][AbilityStepOf("try_activate") =>
        \A s \in tryRequests :
            (/\ specs[s].state = "Blocked"
             /\ ~rejects(s)
             /\ ~has_cooldown(s)) =>
                specs'[s].is_active /\ specs'[s].state = "Active"]_vars

\* The step in which the last ability system of the frame runs: the end of
\* the tick.
AbilityTickEnd == abilityDone # {} /\ abilityDone' = {}

\* C21: a spec that is active in a tick in which its owner holds one of the
\* definition's cancel_on_tags_added is, at the end of the tick, inactive, not
\* in state Active and without ActiveAbilityInstance; the tag-cancel pass
\* leaves an active spec whose owner holds none of its cancel tags as it is.
C21_CancelledByTagsAtTickEnd ==
    [][/\ AbilityTickEnd =>
            \A s \in activeAtStart :
                should_cancel(s) =>
                    /\ ~specs'[s].is_active
                    /\ specs'[s].state # "Active"
                    /\ instances'[s] = 0
       /\ AbilityStepOf("cancel_by_tags") =>
            \A s \in SpecIds :
                (specs[s].is_active /\ ~should_cancel(s)) =>
                    /\ specs'[s] = specs[s]
                    /\ instances'[s] = instances[s]]_vars

\* C21 witness: the tag-cancel pass ran first in a tick that began with the
\* fireball active and the hero stunned, and the dash active; the fireball is
\* inactive and has no instance, the dash is still active with its instance.
C21_Witness ==
    /\ abilityDone = {"cancel_by_tags"}
    /\ activeAtStart = SpecIds
    /\ should_cancel("spec.fireball")
    /\ ~specs["spec.fireball"].is_active
    /\ specs["spec.fireball"].state = "Ready"
    /\ instances["spec.fireball"] = 0
    /\ specs["spec.dash"].is_active
    /\ instances["spec.dash"] = 1

\* The effect ids a commit of spec s is to apply: the definition's cost
\* effect and cooldown effect.
commit_effects(s) ==
    AbilityRegistry[specs[s].definition_id].cost_effect
        \cup AbilityRegistry[specs[s].definition_id].cooldown_effect

\* C22: handling a commit request for an active spec whose instance is not
\* committed creates one instance of the cost effect and one of the cooldown
\* effect on the owner and marks the instance committed; handling a commit
\* request for a committed instance creates no effect instance.
C22_CommitAppliesOnce ==
    [][AbilityStepOf("commit") =>
        \A s \in commitRequests :
            (specs[s].is_active /\ instances[s] > 0) =>
                \A id \in commit_effects(s) :
                    IF s \in committed
                    THEN instances_of(effects', id, AbilityOwner[s])
                             = instances_of(effects, id, AbilityOwner[s])
                    ELSE /\ Cardinality(instances_of(effects', id, AbilityOwner[s]))
                              = Cardinality(instances_of(effects, id,
                                                         AbilityOwner[s])) + 1
                         /\ s \in committed']_vars

\* The steps in which clamp_attributes_system and
\* trigger_attribute_change_events_system run.
ClampStep == pc = "post" /\ "clamp" \notin postDone /\ "clamp" \in postDone'

EventsStep == pc = "post" /\ "events" \notin postDone /\ "events" \in postDone'

\* The value the clamp pass leaves for a value v of attribute a.
clamped_value(a, v) == IF HasMetadata[a] THEN clamp(AttributeMetadata[a], v) ELSE v

\* C23: in every tick the clamp pass runs after the aggregation pass and the
\* change-notification pass after the clamp pass, and the current_value of
\* every attribute at the end of the tick is the clamped value of what the
\* aggregation of that tick produced.
C23_ClampAfterAggregation ==
    [][/\ ClampStep => "aggregate" \in postDone
       /\ EventsStep => "clamp" \in postDone
       /\ (pc' = "end" /\ aggState' # "changed") =>
              \A a \in AttrIds :
                  attributes'[a].current_value = clamped_value(a, lastOut'[a])]_vars

\* The step in which the systems of EffectSystemSet::Aggregate run.
AggregateSetStep == pc = "Aggregate" /\ pc' # pc

\* C24: under the order of the EffectSystemSet chain the aggregation of a
\* tick runs after that tick's effect creation, duration advance, removal of
\* expired effects and removal of instant effects.
C24_AggregateAfterEffectPhases ==
    [][AggregateSetStep =>
        {"Apply", "CreateModifiers", "UpdateDurations", "RemoveExpired",
         "RemoveInstant"} \subseteq sets_before(pc)]_vars

\* The step in which the last system of PostUpdate runs: the end of the tick.
TickEnd == pc = "post" /\ pc' = "end"

\* The AttributeChangedEvents for attribute a among evs.
events_for(evs, a) == {ev \in evs : ev.attribute = a}

\* C25: in each tick at most one AttributeChangedEvent is triggered per
\* attribute, and only for an attribute whose current_value at the end of
\* the tick differs from the one it had when the tick began; when modifiers
\* and base values are as they were at the previous aggregation pass the
\* pass writes nothing and the tick triggers no event.
C25_NotifyOncePerChangedAttribute ==
    [][/\ TickEnd =>
            /\ \A a \in AttrIds :
                  /\ Cardinality(events_for(events', a)) <= 1
                  /\ events_for(events', a) # {} =>
                         attributes'[a].current_value # tickStart[a]
            /\ aggState' = "rerun" => events' = {}
       /\ (AggStep /\ aggState # "changed") => attributes' = attributes]_vars

\* C26: after the clamp pass the base_value and current_value of every
\* attribute with bounds lie within them, a value that was within the bounds
\* (an absent bound allowing everything) is what it was, and clamping the
\* values the pass leaves changes none of them.
C26_ClampWithinBoundsIdempotent ==
    [][ClampStep =>
        \A a \in AttrIds :
            /\ HasMetadata[a] =>
                  /\ InRange(AttributeMetadata[a], attributes'[a].base_value)
                  /\ InRange(AttributeMetadata[a], attributes'[a].current_value)
            /\ InRange(AttributeMetadata[a], attributes[a].base_value) =>
                  attributes'[a].base_value = attributes[a].base_value
            /\ InRange(AttributeMetadata[a], attributes[a].current_value) =>
                  attributes'[a].current_value = attributes[a].current_value
            /\ clamped_value(a, attributes'[a].base_value)
                   = attributes'[a].base_value
            /\ clamped_value(a, attributes'[a].current_value)
                   = attributes'[a].current_value]_vars

\* C26 witness: the clamp pass has run after an aggregation that produced
\* Health 120 and Damage 25; Health (max 100) is 100 and Damage (no max) is
\* 25.
C26_Witness ==
    /\ pc = "post"
    /\ postDone = {"aggregate", "clamp"}
    /\ lastOut["hero.Health"] = R(120)
    /\ lastOut["hero.Damage"] = R(25)
    /\ attributes["hero.Health"].current_value = R(100)
    /\ attributes["hero.Damage"].current_value = R(25)

\* C27: set_base_value leaves as base_value the given value clamped to the
\* bounds of the attribute, base_value keeps that value afterwards, and
\* every later aggregation pass starts from it.
C27_SetBaseClampedPermanent ==
    [][/\ \A a \in AttrIds :
            attributes'[a].base_value = clamped_value(a, baseSet'[a])
       /\ AggStep =>
            \A a \in AttrIds :
                attributes'[a].current_value
                    = aggregate_in_order(
                          AttributeData_new(clamped_value(a, baseSet[a])),
                          Applicable(a))]_vars

\* The step in which create_effect_modifiers_system runs.
CreateStep == pc = "create" /\ pc' = "durations"

\* The value of the attribute `name` on the instigator of effect e, and 0
\* when the effect has no instigator.
source_attr(e, name) ==
    IF effects[e].instigator = NoInstigator THEN R(0)
    ELSE LET a == CHOOSE x \in AttrIds :
                      /\ AttributeOwner[x] = effects[e].instigator
                      /\ AttributeName[x] = name
         IN  attributes[a].current_value

\* The magnitude a modifier of effect e is to have for the calculation calc.
expected_magnitude(calc, e) ==
    IF calc.kind = "ScalableFloat" THEN calc.base_value
    ELSE RAdd(RMul(RAdd(source_attr(e, calc.attribute_name),
                        calc.pre_multiply_additive),
                   calc.coefficient),
              calc.post_multiply_additive)

\* C28: the modifiers created for an effect carry, for an AttributeBased
\* calculation, (source_attr + pre_add) * coefficient + post_add with
\* source_attr the named attribute of the instigator, or 0 without one, and
\* for a ScalableFloat calculation its constant at every level.
C28_MagnitudeFromInstigator ==
    [][CreateStep =>
        \A e \in addedCreate \cap DOMAIN effects :
            LET infos == DefinitionOf(e).modifiers
                made == modifiers_of(modifiers', e)
            IN  /\ Len(made) = Len(infos)
                /\ \A i \in 1..Len(infos) :
                       made[i].magnitude
                           = expected_magnitude(infos[i].magnitude, e)]_vars

\* The positions of the register calls made on `registry` with a definition
\* of the id `id`.
registered_at(registry, id) ==
    {i \in 1..Len(registerLog) :
        registerLog[i][1] = registry /\ registerLog[i][2].id = id}

\* The definition a lookup of id is to give: that of the last register call
\* for the id, and none when there was no such call.
last_registered(registry, id) ==
    IF registered_at(registry, id) = {} THEN {}
    ELSE LET last == CHOOSE i \in registered_at(registry, id) :
                         \A j \in registered_at(registry, id) : j <= i
         IN  {registerLog[last][2]}

\* C29: in the effect registry and in the ability registry, get(id) gives the
\* definition most recently registered under the id, and none for an id that
\* was never registered.
C29_RegistryLastWriteWins ==
    \A id \in LookupIds :
        /\ GameplayEffectRegistry_get(effect_definitions, id)
               = last_registered("effect", id)
        /\ AbilityRegistry_get(ability_definitions, id)
               = last_registered("ability", id)

\* C29 witness: "test" has been registered twice with different definitions
\* in each registry; get gives the second, and none for "nonexistent".
C29_Witness ==
    /\ Len(registerLog) = 3
    /\ registerLog[1] = <<"effect", GameplayEffectDefinition_new("test")>>
    /\ registerLog[2][1] = "effect"
    /\ registerLog[2][2].id = "test"
    /\ registerLog[2][2] # registerLog[1][2]
    /\ GameplayEffectRegistry_get(effect_definitions, "test")
           = {registerLog[2][2]}
    /\ GameplayEffectRegistry_get(effect_definitions, "nonexistent") = {}
    /\ registerLog[3][1] = "ability"
    /\ AbilityRegistry_get(ability_definitions, registerLog[3][2].id)
           = {registerLog[3][2]}

\* The modifiers of effect e are those of its definition: one per ModifierInfo,
\* in the order of creation, addressed to the target of e and the attribute of
\* the entry.
modifiers_match_definition(e) ==
    LET mods == modifiers_of(modifiers, e)
        infos == DefinitionOf(e).modifiers
        first == CHOOSE c \in {mods[m].created : m \in 1..Len(mods)} :
                     \A m \in 1..Len(mods) : c <= mods[m].created
    IN  /\ Len(mods) = Len(infos)
        /\ \A i \in 1..Len(infos) :
              \E m \in 1..Len(mods) :
                  /\ mods[m].created = first + i - 1
                  /\ mods[m].target_entity = effects[e].target
                  /\ mods[m].target_attribute = infos[i].attribute_name

\* C30: from the run of create_effect_modifiers_system that follows its
\* creation until its removal, an effect instance has exactly one modifier
\* per ModifierInfo of its definition, addressed to its target and to the
\* attribute of the entry; later runs create no further modifiers for it.
C30_ModifiersCreatedOnce ==
    \A e \in DOMAIN effects :
        e \notin addedCreate => modifiers_match_definition(e)

\* C30 witness: an effect with two ModifierInfo entries whose modifiers took
\* part in the aggregation of an earlier frame has been through a further
\* run of create_effect_modifiers_system and still has two modifiers.
C30_Witness ==
    /\ pc = "durations"
    /\ \E e \in DOMAIN effects :
          /\ e \in contributed
          /\ e \notin addedCreate
          /\ Len(DefinitionOf(e).modifiers) = 2
          /\ Len(modifiers_of(modifiers, e)) = 2

\* C31: at the end of every tick each spec is in state Active exactly when
\* its is_active is true, in whatever order the ability systems ran.
C31_ActiveStateMatchesFlag ==
    [][AbilityTickEnd =>
        \A s \in SpecIds :
            (specs'[s].state = "Active") <=> specs'[s].is_active]_vars

\* C31 witness: a tick has ended with the fireball active and in state
\* Active (the state update ran after the end pass), and with the dash
\* inactive and not in state Active while a cooldown is present.
C31_Witness ==
    /\ abilityDone = {}
    /\ specs["spec.fireball"].is_active
    /\ specs["spec.fireball"].state = "Active"
    /\ instances["spec.fireball"] = 1
    /\ ~specs["spec.dash"].is_active
    /\ specs["spec.dash"].state # "Active"
    /\ DOMAIN cooldowns # {}

\* The cooldown counted on spec c is on the entity exactly while the time it
\* lived through is below its duration.
removed_when_due(c) ==
    (c \in DOMAIN cooldowns) <=>
        (cooldownClock[c].elapsed < cooldownClock[c].total)

\* No AbilityCooldown exists, and spec s is neither active nor failing the
\* tag check of its definition.
ready_expected(s) ==
    /\ DOMAIN cooldowns = {}
    /\ ~specs[s].is_active
    /\ check_ability_activation_requirements(
           AbilityRegistry[specs[s].definition_id], tags[AbilityOwner[s]])

\* C32: an AbilityCooldown of duration D is removed in the first tick in
\* which the sum of the deltas reaches D and not before; with positive
\* deltas every cooldown is removed in the end; and when none is left the
\* state update reports a spec that is not active and not blocked as Ready.
C32_CooldownRemovedWhenDue ==
    /\ [](\A c \in DOMAIN cooldownClock : removed_when_due(c))
    /\ \A c \in SpecIds :
          (c \in DOMAIN cooldowns) ~> (c \notin DOMAIN cooldowns)
    /\ [][AbilityStepOf("update_states") =>
            \A s \in SpecIds :
                ready_expected(s) => specs'[s].state = "Ready"]_vars

\* C32 witness: the dash has a cooldown of 2 that is still there after one
\* tick of 1, while the fireball's cooldown of 2 is gone after ticks of 1 and
\* 1, and the fireball was reported in Cooldown.
C32_Witness ==
    /\ DOMAIN cooldownClock = SpecIds
    /\ cooldownClock["spec.fireball"] = [total |-> 2, elapsed |-> 2]
    /\ "spec.fireball" \notin DOMAIN cooldowns
    /\ "spec.dash" \in DOMAIN cooldowns
    /\ cooldownClock["spec.dash"] = [total |-> 2, elapsed |-> 1]
    /\ cooldowns["spec.dash"] = 1
    /\ specs["spec.fireball"].state = "Cooldown"

\* The effect entity e has the Infinite policy: no EffectDuration and a
\* definition that is not Instant.
IsInfiniteEffect(e) ==
    /\ ~effects[e].has_duration
    /\ DefinitionOf(e).duration_policy = "Infinite"

\* Every modifier of e is among those the aggregation pass reads for the
\* attribute it names on the target of e.
modifiers_read(e) ==
    LET mods == modifiers_of(modifiers, e)
    IN  \A m \in 1..Len(mods) :
            \A a \in AttrIds :
                (/\ AttributeOwner[a] = mods[m].target_entity
                 /\ AttributeName[a] = mods[m].target_attribute) =>
                    \E i \in 1..Len(Applicable(a)) : Applicable(a)[i] = mods[m]

\* C33: no system removes an effect instance with the Infinite policy or one
\* of its modifiers, and every aggregation pass after the creation of its
\* modifiers reads all of them.
C33_InfiniteNeverRemoved ==
    [][\A e \in DOMAIN effects :
          IsInfiniteEffect(e) =>
              /\ e \in DOMAIN effects'
              /\ effects'[e] = effects[e]
              /\ \A m \in 1..Len(modifiers_of(modifiers, e)) :
                    \E n \in 1..Len(modifiers') :
                        modifiers'[n] = modifiers_of(modifiers, e)[m]
              /\ (AggStep /\ e \notin addedCreate) =>
                    /\ modifiers_match_definition(e)
                    /\ modifiers_read(e)]_vars

\* C33 witness: an Infinite effect whose two modifiers took part in the pass
\* of an earlier frame is still there, with both modifiers, after an effect
\* created later has expired and been removed.
C33_Witness ==
    /\ pc = "durations"
    /\ \E e \in DOMAIN effects :
          /\ IsInfiniteEffect(e)
          /\ e \in contributed
          /\ Len(modifiers_of(modifiers, e)) = 2
          /\ modifiers_read(e)
          /\ \E x \in expiredGone : x > e

\* C34: a pass gives an attribute the value the pass before gave it when the
\* modifiers addressed to its owner and name and its base value are the same
\* as then, whatever modifiers of other attributes were added or removed in
\* between.
C34_OtherAttributesUnchanged ==
    [][AggStep =>
        \A a \in AttrIds :
            (/\ passRead[a].done
             /\ passRead[a].base = attributes[a].base_value
             /\ passRead[a].mods =
                    {Applicable(a)[i] : i \in 1..Len(Applicable(a))}) =>
                attributes'[a].current_value = passRead[a].out]_vars

\* A run of remove_expired_effects_system.
ExpiredStep == pc = "expired" /\ pc' = "instant"

\* The modifier entities in tab, whatever their order.
modifier_set(tab) == {tab[i] : i \in 1..Len(tab)}

\* C35: the removal of the expired effects removes only their own modifiers:
\* every effect that has not expired keeps its components, its duration and
\* its periodic timer, and every modifier whose source has not expired stays.
C35_RemovalLeavesOthers ==
    [][ExpiredStep =>
        LET expired == {e \in DOMAIN effects :
                           effects[e].has_duration /\ is_expired(effects[e])}
        IN  /\ \A e \in DOMAIN effects \ expired :
                  /\ e \in DOMAIN effects'
                  /\ effects'[e] = effects[e]
            /\ modifier_set(modifiers') =
                   {m \in modifier_set(modifiers) : m.source \notin expired}]_vars

\* C35 witness: an instance whose modifiers took part in a pass has expired
\* and been removed with them, while the instance created next, of the
\* periodic definition buff_mul, is still there with its two modifiers, time
\* left and its timer.
C35_Witness ==
    /\ pc = "instant"
    /\ \E gone \in expiredGone, e \in DOMAIN effects :
          /\ modifiers_of(modifiers, gone) = <<>>
          /\ gone \in contributed
          /\ effects[e].definition_id = "buff_mul"
          /\ effects[e].remaining > 0
          /\ effects[e].time_until_next > 0
          /\ Len(modifiers_of(modifiers, e)) = 2
          /\ e = gone + 1

\* C36: a PeriodicEffect of period p ticked with deltas no larger than p has
\* 0 < time_until_next <= p after every tick, and the number of ticks that
\* signalled an execution is floor(elapsed / p).
C36_PeriodicRemainderCarries ==
    periodicTimer.period > 0 =>
        /\ 0 < periodicTimer.time_until_next
        /\ periodicTimer.time_until_next <= periodicTimer.period
        /\ periodicClock.executions
               = periodicClock.elapsed \div periodicTimer.period

\* C36 witness: a timer of period 3 has been ticked for 8 seconds in total,
\* has signalled twice and has 1 second to go.
C36_Witness ==
    /\ periodicTimer = [period |-> 3, time_until_next |-> 1]
    /\ periodicClock = [elapsed |-> 8, executions |-> 2]

\* C37: every AttributeChangedEvent triggered carries the value after the
\* change in new_value and a different value, the one before the change, in
\* old_value.
C37_EventCarriesOldAndNew ==
    [][EventsStep =>
        \A ev \in events' \ events :
            /\ ev.new_value = attributes[ev.attribute].current_value
            /\ ev.old_value # ev.new_value]_vars

\* The call just made on the manager is `name`.
CueCall(name) ==
    /\ Len(cueCalls') = Len(cueCalls) + 1
    /\ cueCalls'[Len(cueCalls')][1] = name

\* C38: while batching is active execute_cue appends the cue to pending_cues
\* and executes nothing; end_batching turns batching off, executes the
\* pending cues once each in the order queued and leaves none pending; and
\* pending_cues is empty whenever batching is not active.
C38_BatchingQueuesThenFlushes ==
    [][/\ (CueCall("execute_cue") /\ cueManager.batching_active) =>
            /\ cueManager'.pending_cues =
                   Append(cueManager.pending_cues,
                          cueCalls'[Len(cueCalls')][2])
            /\ cueManager'.executed = cueManager.executed
            /\ cueManager'.batching_active
       /\ CueCall("end_batching") =>
            /\ ~cueManager'.batching_active
            /\ cueManager'.executed =
                   cueManager.executed \o cueManager.pending_cues
            /\ cueManager'.pending_cues = <<>>
       /\ ~cueManager.batching_active => cueManager.pending_cues = <<>>
       /\ ~cueManager'.batching_active => cueManager'.pending_cues = <<>>]_vars

\* C38 witness: two different cues were queued while batching and nothing
\* was executed; end_batching then executed both in the order queued.
C38_Witness ==
    /\ Len(cueCalls) = 4
    /\ cueCalls[1] = <<"start_batching">>
    /\ cueCalls[2][1] = "execute_cue"
    /\ cueCalls[3][1] = "execute_cue"
    /\ cueCalls[2][2] # cueCalls[3][2]
    /\ cueCalls[4] = <<"end_batching">>
    /\ cueManager.executed = <<cueCalls[2][2], cueCalls[3][2]>>
    /\ cueManager.pending_cues = <<>>
    /\ ~cueManager.batching_active

\* The attribute entities of owner with the name `name`.
attribute_entities_of(owner, name) ==
    {i \in 1..Len(attributeEntities) :
        /\ attributeEntities[i].owner = owner
        /\ attributeEntities[i].name = name}

\* C39: after any sequence of create_attributes calls there is at most one
\* attribute entity for every owner and attribute name.
C39_OneEntityPerOwnerAndName ==
    \A owner \in Owners :
        \A name \in {"Health", "Mana", "Stamina"} :
            Cardinality(attribute_entities_of(owner, name)) <= 1

\* C40: every value new, with_value, set_current_value and set_base_value
\* store in a define_attribute! type lies within [min, max], and
\* is_valid_value is true for it.
C40_StoredValuesValid ==
    /\ MaxHealth_min <= maxHealth.base_value
    /\ maxHealth.base_value <= MaxHealth_max
    /\ MaxHealth_min <= maxHealth.current_value
    /\ maxHealth.current_value <= MaxHealth_max
    /\ is_valid_value(maxHealth.base_value)
    /\ is_valid_value(maxHealth.current_value)

====
